---- MODULE Spec2Model ----
(***************************************************************************)
(* A model of the task orchestration engine of ai-automation:              *)
(*   BaseAgent (agents/base.ts), AutomationAgent (agents/automation-       *)
(*   agent.ts), ToolRegistry (tools/registry.ts), withRetry and            *)
(*   CircuitBreaker (utils/retry.ts).                                      *)
(*                                                                         *)
(* Spec is one execute call of an agent; SpecLive adds that every step    *)
(* that can be taken is taken, SpecTime lets the clock advance during the  *)
(* call, SpecStatus lets the caller use updateTaskStatus on the Task it    *)
(* got back, SpecPair interleaves two execute calls of one agent.          *)
(* SpecResolve, SpecRegistry, SpecRetry, SpecBreaker and SpecBus exercise  *)
(* resolveParameters, the registry, withRetry, the circuit breaker and     *)
(* onEvent with emitEvent on their own, for every argument and every order *)
(* of calls.                                                               *)
(*                                                                         *)
(* Strings are sequences of symbols.  Each symbol stands for one character *)
(* of an abstract alphabet (a symbol such as "step." is one letter of that *)
(* alphabet), so startsWith, slice, includes, replace, toLowerCase and     *)
(* template concatenation are computed on the sequences as the code        *)
(* computes them on characters.                                            *)
(*                                                                         *)
(* JavaScript values are tagged records: undefined, null, number, boolean, *)
(* string, object (a function from keys to values) and array (a sequence). *)
(***************************************************************************)
EXTENDS Naturals, Integers, Sequences, FiniteSets, TLC

\* ------------------------------------------------------------------------
\* Bounds of the model
\* ------------------------------------------------------------------------

\* the longest step list the planner collaborator's answer holds
MaxPlanSteps == 3

\* the most event handlers registered on the agent
MaxHandlers == 2

\* the latest reading of the clock
MaxClock == 2

\* ------------------------------------------------------------------------
\* JavaScript values
\* ------------------------------------------------------------------------

Undefined == [t |-> "undefined"]

Null == [t |-> "null"]

Num(n) == [t |-> "number", v |-> n]

Bool(b) == [t |-> "boolean", v |-> b]

Str(s) == [t |-> "string", v |-> s]

Obj(f) == [t |-> "object", v |-> f]

Arr(e) == [t |-> "array", v |-> e]

EmptyObj == Obj(<<>>)

\* x ?? y
Nullish(x) == x.t \in {"undefined", "null"}

\* Map.prototype.get: undefined for a key that is not in the map
MapGet(m, k) == IF k \in DOMAIN m THEN m[k] ELSE Undefined

\* Map.prototype.set / object property assignment
MapSet(m, k, x) == [j \in DOMAIN m \cup {k} |-> IF j = k THEN x ELSE m[j]]

\* ------------------------------------------------------------------------
\* Strings
\* ------------------------------------------------------------------------

\* String.prototype.toLowerCase on one character
LowerChar(c) ==
  CASE c = "Run" -> "run"
    [] c = "My" -> "my"
    [] OTHER -> c

toLowerCase(s) == [i \in 1..Len(s) |-> LowerChar(s[i])]

\* name.replace(/_/g, ' ')
replaceUnderscores(s) == [i \in 1..Len(s) |-> IF s[i] = "_" THEN " " ELSE s[i]]

\* String.prototype.includes
includes(s, sub) ==
  \E i \in 0..Len(s) :
    /\ i + Len(sub) <= Len(s)
    /\ \A j \in 1..Len(sub) : s[i + j] = sub[j]

\* value.startsWith('$')
startsWithSigil(s) == Len(s) > 0 /\ s[1] = "$"

\* Array.prototype.join(', ')
RECURSIVE join(_)
join(names) ==
  IF Len(names) = 0 THEN <<>>
  ELSE IF Len(names) = 1 THEN names[1]
  ELSE names[1] \o <<", ">> \o join(Tail(names))

\* the string of an array index, as Object.entries gives it
IndexKey(i) == <<"0", "1", "2", "3", "4", "5">>[i]

\* ------------------------------------------------------------------------
\* Parameter resolution (agents/base.ts)
\* ------------------------------------------------------------------------

\* Object.entries(params) throws a TypeError for undefined and null
resolveThrows(params) == Nullish(params)

\* Object.entries(value): own enumerable properties; index keys for an array
\* and for the characters of a string, nothing for a number or a boolean
entries(value) ==
  CASE value.t = "object" -> value.v
    [] value.t = "array" ->
         [k \in {IndexKey(i) : i \in 1..Len(value.v)} |->
            value.v[CHOOSE i \in 1..Len(value.v) : IndexKey(i) = k]]
    [] value.t = "string" ->
         [k \in {IndexKey(i) : i \in 1..Len(value.v)} |->
            Str(<<value.v[CHOOSE i \in 1..Len(value.v) : IndexKey(i) = k]>>)]
    [] OTHER -> <<>>

\* a lookup with no fallback: context.variables.get(varPath)
lookupOnly(value, variables) == MapGet(variables, Tail(value.v))

\* context.variables.get(varPath) ?? value
lookupOrKeep(value, variables) ==
  LET found == MapGet(variables, Tail(value.v))
  IN  IF Nullish(found) THEN value ELSE found

\* resolveParameters(params, context): the resolved object's properties
RECURSIVE resolveParameters(_, _)
resolveParameters(params, variables) ==
  LET e == entries(params)
  IN  [k \in DOMAIN e |->
         IF e[k].t = "string" /\ startsWithSigil(e[k].v)
           THEN lookupOrKeep(e[k], variables)
         ELSE IF e[k].t \in {"object", "array"}
           THEN Obj(resolveParameters(e[k], variables))
         ELSE e[k]]

\* ------------------------------------------------------------------------
\* Thrown values and tool results
\* ------------------------------------------------------------------------

\* String(error) in place of error.message
errorText(thrown) ==
  IF thrown.isError THEN Str(<<"Error: ">> \o thrown.message) ELSE Str(thrown.message)

\* error instanceof Error ? error.message : 'Unknown error'
errorMessage(thrown) ==
  IF thrown.isError THEN Str(thrown.message) ELSE Str(<<"Unknown error">>)

ToolResult(success, data, error, metadata) ==
  [success |-> success, data |-> data, error |-> error, metadata |-> metadata]

\* ------------------------------------------------------------------------
\* Tool registry (tools/registry.ts)
\* ------------------------------------------------------------------------

\* the registry is a Map keyed by tool name: the definitions in insertion
\* order, names unique; a name is a string value
has(tools, name) == \E i \in 1..Len(tools) : tools[i].name = name

\* Map.prototype.get: undefined for a name that is not in the map
get(tools, name) ==
  IF has(tools, name)
    THEN tools[CHOOSE i \in 1..Len(tools) : tools[i].name = name]
    ELSE Undefined

getNames(tools) == [i \in 1..Len(tools) |-> tools[i].name]

\* a registration that never replaces: the definition is added at the end
registerAppend(tools, tool) == Append(tools, tool)

\* register(tool): Map.prototype.set replaces the entry of a name that is
\* in the map, where it stands, and adds the entry at the end otherwise
register(tools, tool) ==
  IF has(tools, tool.name)
    THEN [i \in 1..Len(tools) |->
            IF tools[i].name = tool.name THEN tool ELSE tools[i]]
    ELSE Append(tools, tool)

\* registerMany(list): register, for each definition in order
RECURSIVE registerMany(_, _)
registerMany(tools, list) ==
  IF Len(list) = 0 THEN tools
  ELSE registerMany(register(tools, Head(list)), Tail(list))

\* unregister(name): Map.prototype.delete
unregister(tools, name) ==
  LET kept(tool) == tool.name # name
  IN  SelectSeq(tools, kept)

\* `${value}` inside a template literal
template(value) ==
  CASE value.t = "string" -> value.v
    [] value.t = "undefined" -> <<"undefined">>
    [] value.t = "null" -> <<"null">>
    [] OTHER -> <<"[object Object]">>

\* a result for a name that is not registered that carries no error
notFoundSilent(name) == ToolResult(FALSE, Undefined, Undefined, Undefined)

\* the error of execute for a name that is not registered
notFoundResult(name) ==
  ToolResult(FALSE, Undefined,
             Str(<<"Tool '">> \o template(name) \o <<"' not found">>), Undefined)

\* a validation that reports every declared parameter that is absent
missingAny(tool, params) ==
  LET absent(p) == p.name \notin DOMAIN params
      kept == SelectSeq(tool.parameters, absent)
  IN  [i \in 1..Len(kept) |-> kept[i].name]

\* tool.parameters.filter(p => p.required && !(p.name in params)).map(p => p.name)
missingParams(tool, params) ==
  LET absent(p) == p.required /\ p.name \notin DOMAIN params
      kept == SelectSeq(tool.parameters, absent)
  IN  [i \in 1..Len(kept) |-> kept[i].name]

missingResult(missing) ==
  ToolResult(FALSE, Undefined,
             Str(<<"Missing required parameters: ">>
                 \o join([i \in 1..Len(missing) |-> <<missing[i]>>])),
             Undefined)

\* { ...params } with the declared defaults of the absent parameters
RECURSIVE applyDefaults(_, _)
applyDefaults(parameters, params) ==
  IF Len(parameters) = 0 THEN params
  ELSE LET p == Head(parameters)
           next == IF p.name \notin DOMAIN params /\ p.default # Undefined
                     THEN MapSet(params, p.name, p.default) ELSE params
       IN  applyDefaults(Tail(parameters), next)

\* what execute stops at before the tool's capability is reached:
\* "notFound", "missing" or "invoke"
registryPath(tools, name, params) ==
  IF ~has(tools, name) THEN "notFound"
  ELSE IF Len(missingParams(get(tools, name), params)) > 0 THEN "missing"
  ELSE "invoke"

\* { ...result.metadata, executionTimeMs: duration }
withExecutionTime(metadata, duration) ==
  Obj(MapSet(IF metadata.t = "object" THEN metadata.v ELSE <<>>,
             "executionTimeMs", Num(duration)))

\* the result execute returns once the capability has returned or thrown
registryResult(outcome, duration) ==
  IF outcome.kind = "return"
    THEN [outcome.result EXCEPT !.metadata = withExecutionTime(@, duration)]
    ELSE ToolResult(FALSE, Undefined, errorMessage(outcome.thrown),
                    withExecutionTime(Undefined, duration))

\* ------------------------------------------------------------------------
\* Identifiers (utils/id.ts)
\* ------------------------------------------------------------------------

\* nanoid(12): the n-th identifier drawn; no two draws collide
nanoid(n) ==
  <<"a1", "a2", "a3", "a4", "a5", "a6", "a7", "a8", "a9", "b1", "b2", "b3", "b4",
    "b5", "b6", "b7", "b8", "b9">>[n]

\* `${PREFIXES[prefix]}_${nanoid(12)}`
generateId(prefix, n) == <<prefix, "_", nanoid(n)>>

\* ------------------------------------------------------------------------
\* Task input (types/index.ts: TaskInputSchema)
\* ------------------------------------------------------------------------

Priorities == {<<"low">>, <<"medium">>, <<"high">>, <<"critical">>}

positiveInteger(x) == x.t = "number" /\ x.v \in Nat /\ x.v > 0

\* TaskInputSchema.parse(input) succeeds
validInput(input) ==
  /\ input.description.t = "string" /\ Len(input.description.v) > 0
  /\ input.priority = Undefined
       \/ (input.priority.t = "string" /\ input.priority.v \in Priorities)
  /\ input.context = Undefined \/ input.context.t = "object"
  /\ input.maxSteps = Undefined \/ positiveInteger(input.maxSteps)
  /\ input.timeoutMs = Undefined \/ positiveInteger(input.timeoutMs)

\* the parsed input: the declared defaults in place of the absent fields
parseInput(input) ==
  [description |-> input.description,
   priority |-> IF input.priority = Undefined THEN Str(<<"medium">>) ELSE input.priority,
   context |-> input.context,
   maxSteps |-> IF input.maxSteps = Undefined THEN Num(10) ELSE input.maxSteps,
   timeoutMs |-> IF input.timeoutMs = Undefined THEN Num(60000) ELSE input.timeoutMs]

\* ------------------------------------------------------------------------
\* Planning (agents/automation-agent.ts)
\* ------------------------------------------------------------------------

\* object.key: undefined for a property the object does not have
prop(object, key) ==
  IF object.t = "object" /\ key \in DOMAIN object.v THEN object.v[key] ELSE Undefined

TaskStep(id, name, description, toolName, parameters) ==
  [id |-> id, name |-> name, description |-> description, toolName |-> toolName,
   parameters |-> parameters, status |-> "pending", result |-> Undefined,
   error |-> Undefined, startedAt |-> Undefined, completedAt |-> Undefined]

\* x || y on a string or an absent value
falsy(x) == Nullish(x) \/ (x.t = "string" /\ Len(x.v) = 0)

\* plan.steps.map(...) throws: plan or plan.steps has no map, or an element
\* of the list is null
convertThrows(plan) ==
  \/ Nullish(plan)
  \/ prop(plan, "steps").t # "array"
  \/ \E i \in 1..Len(prop(plan, "steps").v) : Nullish(prop(plan, "steps").v[i])

\* the identifiers plan.steps.map(...) draws before it returns or throws
convertDraws(plan) ==
  IF Nullish(plan) \/ prop(plan, "steps").t # "array" THEN 0
  ELSE LET list == prop(plan, "steps").v
           bad == {i \in 1..Len(list) : Nullish(list[i])}
       IN  IF bad = {} THEN Len(list)
           ELSE (CHOOSE i \in bad : \A j \in bad : i <= j) - 1

\* convertPlanToSteps(plan), the first identifier drawn being the (n+1)-th
convertPlanToSteps(plan, n) ==
  LET list == prop(plan, "steps").v
  IN  [i \in 1..Len(list) |->
         TaskStep(generateId("step", n + i),
                  IF falsy(prop(list[i], "name"))
                    THEN Str(<<"Step ", IndexKey(i + 1)>>)
                    ELSE prop(list[i], "name"),
                  prop(list[i], "description"),
                  prop(list[i], "toolName"),
                  prop(list[i], "parameters"))]

\* toolNames.find(name => description.toLowerCase().includes(name.replace(/_/g, ' ')))
matchedTool(description, names) ==
  LET hits == {i \in 1..Len(names) :
                 includes(toLowerCase(description.v), replaceUnderscores(names[i].v))}
  IN  IF hits = {} THEN Undefined
      ELSE names[CHOOSE i \in hits : \A j \in hits : i <= j]

\* the tool the heuristic plan names when no registered name matches
defaultTool == Str(<<"analyze", "_", "text">>)

\* a heuristic plan with no default step
createSimplePlanNoDefault(input, registered, n) ==
  LET matched == matchedTool(input.description, getNames(registered))
  IN  IF matched # Undefined
        THEN << TaskStep(generateId("step", n + 1),
                         Str(<<"Execute ">> \o matched.v),
                         input.description,
                         matched,
                         IF Nullish(input.context) THEN EmptyObj ELSE input.context) >>
        ELSE << >>

\* createSimplePlan(task), drawing the (n+1)-th identifier
createSimplePlan(input, registered, n) ==
  LET matched == matchedTool(input.description, getNames(registered))
  IN  IF matched # Undefined
        THEN << TaskStep(generateId("step", n + 1),
                         Str(<<"Execute ">> \o matched.v),
                         input.description,
                         matched,
                         IF Nullish(input.context) THEN EmptyObj ELSE input.context) >>
        ELSE << TaskStep(generateId("step", n + 1),
                         Str(<<"Analyze Input">>),
                         Str(<<"Analyze the task input for insights">>),
                         defaultTool,
                         Obj([k \in {"text"} |-> input.description])) >>

\* ------------------------------------------------------------------------
\* Result aggregation (agents/base.ts)
\* ------------------------------------------------------------------------

\* an aggregation that keeps every completed step
aggregatedAnyResult(step) == step.status = "completed"

\* step.status === 'completed' && step.result !== undefined
aggregated(step) == step.status = "completed" /\ step.result # Undefined

\* aggregateResults(steps)
aggregateResults(steps) ==
  LET kept == {i \in 1..Len(steps) : aggregated(steps[i])}
  IN  Obj([id \in {steps[i].id : i \in kept} |->
             LET step == steps[CHOOSE i \in kept : steps[i].id = id]
             IN  Obj([k \in {"name", "result"} |->
                        IF k = "name" THEN step.name ELSE step.result])])

\* ------------------------------------------------------------------------
\* What the environment supplies: registries, inputs, planner answers,
\* tool outcomes, thrown values
\* ------------------------------------------------------------------------

Parameter(name, required, default) ==
  [name |-> name, required |-> required, default |-> default]

\* tools/builtin/index.ts: analyze_text
analyzeTextTool ==
  [name |-> Str(<<"analyze", "_", "text">>),
   parameters |-> << Parameter("text", TRUE, Undefined),
                     Parameter("includeWordFrequency", FALSE, Bool(FALSE)) >>]

\* the custom tool of the README: one required parameter
myCustomTool ==
  [name |-> Str(<<"my", "_", "custom", "_", "tool">>),
   parameters |-> << Parameter("input", TRUE, Undefined) >>]

Registries == { <<>>, <<analyzeTextTool, myCustomTool>>, <<myCustomTool>> }

RawInput(description, priority, context, maxSteps) ==
  [description |-> description, priority |-> priority, context |-> context,
   maxSteps |-> maxSteps, timeoutMs |-> Undefined]

Inputs ==
  { RawInput(Str(<<"add", " ", "30", " ", "days">>), Undefined, EmptyObj, Undefined),
    RawInput(Str(<<"Run", " ", "My", " ", "custom", " ", "tool">>), Str(<<"high">>),
             Obj([k \in {"input"} |-> Str(<<"x">>)]), Num(1)),
    RawInput(Str(<<>>), Undefined, Undefined, Undefined),
    RawInput(Str(<<"add", " ", "30", " ", "days">>), Undefined, EmptyObj, Num(0)) }

\* the step objects of a planner answer
StepSpecs ==
  { Obj([k \in {"name", "description", "toolName", "parameters"} |->
           CASE k = "name" -> Str(<<"Analyze">>)
             [] k = "description" -> Str(<<"count the words">>)
             [] k = "toolName" -> Str(<<"analyze", "_", "text">>)
             [] OTHER -> Obj([j \in {"text"} |-> Str(<<"hello">>)])]),
    Obj([k \in {"name", "toolName", "parameters"} |->
           CASE k = "name" -> Str(<<>>)
             [] k = "toolName" -> Str(<<"my", "_", "custom", "_", "tool">>)
             [] OTHER -> EmptyObj]),
    Obj([k \in {"name", "toolName"} |->
           CASE k = "name" -> Str(<<"Broken">>)
             [] OTHER -> Str(<<"analyze", "_", "text">>)]) }

SeqsUpTo(S, n) == UNION {[1..k -> S] : k \in 0..n}

Plan(list) == Obj([k \in {"reasoning", "steps"} |->
                     IF k = "steps" THEN Arr(list) ELSE Str(<<"because">>)])

\* what JSON.parse of the planner's answer can be: a plan of up to
\* MaxPlanSteps steps, a step list that holds a null, an object with no steps
PlannerAnswers ==
  {Plan(list) : list \in SeqsUpTo(StepSpecs, MaxPlanSteps)}
    \cup {Plan(Append(list, Null)) : list \in SeqsUpTo(StepSpecs, 1)}
    \cup {EmptyObj, Null}

Thrown(isError, message) == [isError |-> isError, message |-> message]

ThrownValues == { Thrown(TRUE, <<"boom">>), Thrown(FALSE, <<>>) }

\* what a tool's capability does when invoked
ToolOutcomes ==
  { [kind |-> "return",
     result |-> ToolResult(TRUE, Obj([k \in {"wordCount"} |-> Num(6)]), Undefined, Undefined)],
    [kind |-> "return", result |-> ToolResult(TRUE, Undefined, Undefined, Undefined)],
    [kind |-> "return", result |-> ToolResult(TRUE, Null, Undefined, Undefined)],
    [kind |-> "return",
     result |-> ToolResult(FALSE, Undefined, Str(<<"Invalid date">>), Undefined)],
    [kind |-> "return", result |-> ToolResult(FALSE, Undefined, Undefined, Undefined)] }
    \cup {[kind |-> "throw", thrown |-> x] : x \in ThrownValues}

\* the agent classes: the repository's AutomationAgent, and a subclass of
\* BaseAgent whose plan rejects
Agents == {"AutomationAgent", "RejectingPlan"}

\* ------------------------------------------------------------------------
\* State
\* ------------------------------------------------------------------------

VARIABLES
  tools,          \* ToolRegistry.tools
  eventHandlers,  \* BaseAgent.eventHandlers
  agent,          \* the class of the agent execute is called on
  input,          \* the argument of execute
  pc,             \* where the execute call stands
  task,           \* the Task of the call, NoTask before it is created
  context,        \* the ExecutionContext of the call
  cur,            \* the position of the for loop in task.steps
  call,           \* the tool invocation in flight inside registry.execute
  dispatch,       \* emitEvent: the position of the next handler to call
  events,         \* every event emitted, in order
  ids,            \* how many identifiers were drawn
  clock,          \* the system clock
  outcome,        \* how execute ended: "none", "returned" or "raised"
  history,        \* what happened during the call (observation only)
  resolving,      \* a resolveParameters call on its own: arguments and results
  reg,            \* the registry's callers: what was registered last under
                  \* each name, and the last call's return (observation only)
  retrying,       \* a withRetry call on its own
  breaker,        \* a CircuitBreaker and its callers
  bus,            \* an agent's eventHandlers with handlers that come and go
  other           \* a second execute call of the agent, while it is suspended

vars == <<tools, eventHandlers, agent, input, pc, task, context, cur, call,
          dispatch, events, ids, clock, outcome, history, resolving, reg,
          retrying, breaker, bus, other>>

\* what one execute call leaves alone: the units that are exercised on
\* their own and the call that is suspended
standalone == <<resolving, reg, retrying, breaker, bus, other>>

\* the state of one execute call of an agent, the tool invocation apart
executing == <<eventHandlers, agent, input, pc, task, context, cur, dispatch,
               events, ids, clock, outcome, history>>

NoTask == [status |-> "none", steps |-> <<>>]

NoContext == [taskId |-> <<>>, stepResults |-> <<>>, variables |-> <<>>]

NoCall == [name |-> Undefined]

\* a unit that is exercised on its own has not been called
NotCalled == [phase |-> "none"]

NoHistory ==
  [plannerFailed |-> FALSE, planReturned |-> FALSE, planThrew |-> FALSE,
   handlerThrew |-> FALSE, resolveThrew |-> FALSE, toolThrew |-> FALSE,
   reachedExecuting |-> FALSE,
   registryCalls |-> <<>>, invocations |-> <<>>]

\* new Date()
Date == Num(clock)

Init ==
  /\ tools \in Registries
  /\ eventHandlers \in {[i \in 1..n |-> IndexKey(i)] : n \in 0..MaxHandlers}
  /\ agent \in Agents
  /\ input \in Inputs
  /\ pc = "idle"
  /\ task = NoTask
  /\ context = NoContext
  /\ cur = 0
  /\ call = NoCall
  /\ dispatch = Len(eventHandlers) + 1
  /\ events = <<>>
  /\ ids = 0
  /\ clock = 0
  /\ outcome = "none"
  /\ history = NoHistory
  /\ resolving = NotCalled
  /\ reg = NotCalled
  /\ retrying = NotCalled
  /\ breaker = NotCalled
  /\ bus = NotCalled
  /\ other = NotCalled

\* ------------------------------------------------------------------------
\* emitEvent (agents/base.ts)
\* ------------------------------------------------------------------------

AgentEvent(type, taskId, stepId) ==
  [type |-> type, taskId |-> taskId, stepId |-> stepId, timestamp |-> Date]

\* emitEvent(event), up to its first await
emitEvent(type, taskId, stepId) ==
  /\ events' = Append(events, AgentEvent(type, taskId, stepId))
  /\ dispatch' = 1

\* the for loop of emitEvent has passed the last handler
Delivered == dispatch > Len(eventHandlers)

\* await handler(fullEvent) returns
HandlerReturns ==
  /\ ~Delivered
  /\ dispatch' = dispatch + 1
  /\ UNCHANGED <<standalone, tools, eventHandlers, agent, input, pc, task, context, cur,
                 call, events, ids, clock, outcome, history>>

\* an emitEvent without its try block: the handler's error leaves execute
HandlerThrowsUncaught ==
  /\ ~Delivered
  /\ pc' = "done"
  /\ outcome' = "raised"
  /\ history' = [history EXCEPT !.handlerThrew = TRUE]
  /\ UNCHANGED <<standalone, tools, eventHandlers, agent, input, task, context, cur, call,
                 dispatch, events, ids, clock>>

\* an emitEvent whose try block is around the loop: the handler's error ends
\* the dispatch of the event
HandlerThrowsStops ==
  /\ ~Delivered
  /\ dispatch' = Len(eventHandlers) + 1
  /\ history' = [history EXCEPT !.handlerThrew = TRUE]
  /\ UNCHANGED <<standalone, tools, eventHandlers, agent, input, pc, task, context, cur,
                 call, events, ids, clock, outcome>>

\* await handler(fullEvent) throws or rejects: caught and logged
HandlerThrows ==
  /\ ~Delivered
  /\ dispatch' = dispatch + 1
  /\ history' = [history EXCEPT !.handlerThrew = TRUE]
  /\ UNCHANGED <<standalone, tools, eventHandlers, agent, input, pc, task, context, cur,
                 call, events, ids, clock, outcome>>

\* ------------------------------------------------------------------------
\* execute (agents/base.ts): input validation, task creation, planning
\* ------------------------------------------------------------------------

Task(id, validatedInput) ==
  [id |-> id, input |-> validatedInput, status |-> "pending", steps |-> <<>>,
   result |-> Undefined, error |-> Undefined, createdAt |-> Date,
   startedAt |-> Undefined, completedAt |-> Undefined, metadata |-> EmptyObj]

\* TaskInputSchema.parse(input) throws: execute rejects, nothing was created
RejectInput ==
  /\ pc = "idle"
  /\ ~validInput(input)
  /\ pc' = "done"
  /\ outcome' = "raised"
  /\ UNCHANGED <<standalone, tools, eventHandlers, agent, input, task, context, cur, call,
                 dispatch, events, ids, clock, history>>

\* the task is created and task:created is emitted
CreateTask ==
  /\ pc = "idle"
  /\ validInput(input)
  /\ task' = Task(generateId("task", ids + 1), parseInput(input))
  /\ ids' = ids + 1
  /\ emitEvent("task:created", task'.id, Undefined)
  /\ pc' = "created"
  /\ UNCHANGED <<standalone, tools, eventHandlers, agent, input, context, cur, call, clock,
                 outcome, history>>

\* task.status = 'planning'; task.startedAt = new Date(); task:started
StartTask ==
  /\ pc = "created"
  /\ Delivered
  /\ task' = [task EXCEPT !.status = "planning", !.startedAt = Date]
  /\ emitEvent("task:started", task.id, Undefined)
  /\ pc' = "started"
  /\ UNCHANGED <<standalone, tools, eventHandlers, agent, input, context, cur, call, ids,
                 clock, outcome, history>>

\* task:planning
BeginPlanning ==
  /\ pc = "started"
  /\ Delivered
  /\ emitEvent("task:planning", task.id, Undefined)
  /\ pc' = "planning"
  /\ UNCHANGED <<standalone, tools, eventHandlers, agent, input, task, context, cur, call,
                 ids, clock, outcome, history>>

\* plan(task) has returned steps: task.steps = steps; task:planned
Planned(steps, drawn, failed) ==
  /\ task' = [task EXCEPT !.steps = steps]
  /\ ids' = ids + drawn
  /\ emitEvent("task:planned", task.id, Undefined)
  /\ pc' = "planned"
  /\ history' = [history EXCEPT !.planReturned = TRUE, !.plannerFailed = failed]
  /\ UNCHANGED <<standalone, tools, eventHandlers, agent, input, context, cur, call, clock,
                 outcome>>

\* AutomationAgent.plan with no tool registered: the heuristic plan
PlanWithoutTools ==
  /\ pc = "planning"
  /\ Delivered
  /\ agent = "AutomationAgent"
  /\ Len(tools) = 0
  /\ Planned(createSimplePlan(task.input, tools, ids), 1, FALSE)

\* AutomationAgent.plan: what plan returns for an answer of the planner
planFor(answer, validatedInput, registered, n) ==
  IF convertThrows(answer)
    THEN createSimplePlan(validatedInput, registered, n + convertDraws(answer))
    ELSE convertPlanToSteps(answer, n)

\* AutomationAgent.plan: createAIPlan returns the planner's answer
PlannerReturns ==
  \E answer \in PlannerAnswers :
    /\ pc = "planning"
    /\ Delivered
    /\ agent = "AutomationAgent"
    /\ Len(tools) > 0
    /\ Planned(planFor(answer, task.input, tools, ids),
               convertDraws(answer) + (IF convertThrows(answer) THEN 1 ELSE 0),
               convertThrows(answer))

\* a plan without its try block: the planner's error reaches execute's catch
PlannerThrowsUncaught ==
  /\ pc = "planning"
  /\ Delivered
  /\ agent = "AutomationAgent"
  /\ Len(tools) > 0
  /\ task' = [task EXCEPT !.status = "failed", !.error = Str(<<"boom">>)]
  /\ emitEvent("task:failed", task.id, Undefined)
  /\ pc' = "finishing"
  /\ history' = [history EXCEPT !.plannerFailed = TRUE]
  /\ UNCHANGED <<standalone, tools, eventHandlers, agent, input, context, cur, call, ids,
                 clock, outcome>>

\* AutomationAgent.plan: createAIPlan throws, the heuristic plan is used
PlannerThrows ==
  /\ pc = "planning"
  /\ Delivered
  /\ agent = "AutomationAgent"
  /\ Len(tools) > 0
  /\ Planned(createSimplePlan(task.input, tools, ids), 1, TRUE)

\* a catch clause of execute that records the error and forgets the status
caughtErrorOnly(t, thrown) == [t EXCEPT !.error = errorMessage(thrown)]

\* the catch clause of execute
caught(t, thrown) == [t EXCEPT !.status = "failed", !.error = errorMessage(thrown)]

\* plan(task) rejects: the catch clause of execute; task:failed
PlanRejects ==
  \E thrown \in ThrownValues :
    /\ pc = "planning"
    /\ Delivered
    /\ agent = "RejectingPlan"
    /\ task' = caught(task, thrown)
    /\ emitEvent("task:failed", task.id, Undefined)
    /\ pc' = "finishing"
    /\ history' = [history EXCEPT !.planThrew = TRUE]
    /\ UNCHANGED <<standalone, tools, eventHandlers, agent, input, context, cur, call, ids,
                   clock, outcome>>

\* ------------------------------------------------------------------------
\* execute: the execution phase, and executeStep
\* ------------------------------------------------------------------------

step == task.steps[cur]

\* a key that leaves the step's id out
resultKeyShared(id) == <<"step.", ".result">>

\* `step.${step.id}.result`
resultKey(id) == <<"step.">> \o id \o <<".result">>

\* task.status = 'executing'; the context is created; the loop is entered
BeginExecution ==
  /\ pc = "planned"
  /\ Delivered
  /\ task' = [task EXCEPT !.status = "executing"]
  /\ context' = [taskId |-> task.id, stepResults |-> <<>>, variables |-> <<>>]
  /\ cur' = 1
  /\ pc' = "loop"
  /\ history' = [history EXCEPT !.reachedExecuting = TRUE]
  /\ UNCHANGED <<standalone, tools, eventHandlers, agent, input, call, dispatch, events,
                 ids, clock, outcome>>

\* the for loop takes the next step
loopContinues(t, i) == i <= Len(t.steps) /\ t.status = "executing"

\* executeStep begins: status executing, startedAt, step:started
StartStep ==
  /\ pc = "loop"
  /\ loopContinues(task, cur)
  /\ task' = [task EXCEPT !.steps[cur].status = "executing",
                          !.steps[cur].startedAt = Date]
  /\ emitEvent("step:started", context.taskId, step.id)
  /\ pc' = "stepStarted"
  /\ UNCHANGED <<standalone, tools, eventHandlers, agent, input, context, cur, call, ids,
                 clock, outcome, history>>

\* the for loop ends
LeaveLoop ==
  /\ pc = "loop"
  /\ ~loopContinues(task, cur)
  /\ pc' = "complete"
  /\ UNCHANGED <<standalone, tools, eventHandlers, agent, input, task, context, cur, call,
                 dispatch, events, ids, clock, outcome, history>>

\* the step after the try block of executeStep has seen `result`
settledStep(s, result) ==
  IF result.success
    THEN [s EXCEPT !.status = "completed", !.result = result.data]
    ELSE [s EXCEPT !.status = "failed", !.error = result.error]

\* the context after the try block of executeStep has seen `result`
settledContext(c, s, result) ==
  IF result.success
    THEN [c EXCEPT !.stepResults = MapSet(@, s.id, result),
                   !.variables = IF result.data # Undefined
                                   THEN MapSet(@, resultKey(s.id), result.data)
                                   ELSE @]
    ELSE c

\* executeStep handles the ToolResult of registry.execute
Settle(result) ==
  /\ task' = [task EXCEPT !.steps[cur] = settledStep(@, result)]
  /\ context' = settledContext(context, step, result)
  /\ emitEvent(IF result.success THEN "step:completed" ELSE "step:failed",
               context.taskId, step.id)
  /\ pc' = "stepDone"

\* the catch clause of executeStep
caughtStep(s, thrown) == [s EXCEPT !.status = "failed", !.error = errorMessage(thrown)]

\* what Object.entries throws for undefined or null
entriesTypeError == Thrown(TRUE, <<"Cannot convert undefined or null to object">>)

\* resolveParameters throws: the catch clause of executeStep; step:failed
ResolveFails ==
  /\ pc = "stepStarted"
  /\ Delivered
  /\ resolveThrows(step.parameters)
  /\ task' = [task EXCEPT !.steps[cur] = caughtStep(@, entriesTypeError)]
  /\ emitEvent("step:failed", context.taskId, step.id)
  /\ pc' = "stepDone"
  /\ history' = [history EXCEPT !.resolveThrew = TRUE]
  /\ UNCHANGED <<standalone, tools, eventHandlers, agent, input, context, cur, call, ids,
                 clock, outcome>>

resolved == resolveParameters(step.parameters, context.variables)

\* registry.execute returns before the tool's capability is reached
RegistryRejects ==
  /\ pc = "stepStarted"
  /\ Delivered
  /\ ~resolveThrows(step.parameters)
  /\ registryPath(tools, step.toolName, resolved) # "invoke"
  /\ Settle(IF registryPath(tools, step.toolName, resolved) = "notFound"
              THEN notFoundResult(step.toolName)
              ELSE missingResult(missingParams(get(tools, step.toolName), resolved)))
  /\ history' = [history EXCEPT !.registryCalls = Append(@, cur)]
  /\ UNCHANGED <<standalone, tools, eventHandlers, agent, input, cur, call, ids, clock,
                 outcome>>

\* registry.execute invokes the tool's capability
InvokeTool ==
  /\ pc = "stepStarted"
  /\ Delivered
  /\ ~resolveThrows(step.parameters)
  /\ registryPath(tools, step.toolName, resolved) = "invoke"
  /\ call' = [name |-> step.toolName,
              params |-> applyDefaults(get(tools, step.toolName).parameters, resolved),
              startTime |-> clock]
  /\ pc' = "tool"
  /\ history' = [history EXCEPT !.registryCalls = Append(@, cur),
                                !.invocations = Append(@, cur)]
  /\ UNCHANGED <<standalone, tools, eventHandlers, agent, input, task, context, cur,
                 dispatch, events, ids, clock, outcome>>

\* the capability returns or throws; registry.execute returns its result
ToolSettles ==
  \E o \in ToolOutcomes :
    /\ pc = "tool"
    /\ Settle(registryResult(o, clock - call.startTime))
    /\ call' = NoCall
    /\ history' = [history EXCEPT !.toolThrew = @ \/ o.kind = "throw"]
    /\ UNCHANGED <<standalone, tools, eventHandlers, agent, input, cur, ids,
                   clock, outcome>>

\* a loop that never breaks on a failed step
haltsNever(s) == FALSE

\* a loop that breaks only on a failed step that carries an error
haltsOnError(s) == s.status = "failed" /\ s.error # Undefined

\* if (step.status === 'failed')
halts(s) == s.status = "failed"

\* a break that copies the error and leaves the task executing
failedByErrorOnly(t, s) == [t EXCEPT !.error = s.error]

\* task.status = 'failed'; task.error = step.error
failedBy(t, s) == [t EXCEPT !.status = "failed", !.error = s.error]

\* an execute that runs a failed step again instead of breaking
FinishStepRetries ==
  /\ pc = "stepDone"
  /\ Delivered
  /\ LET stamped == [task EXCEPT !.steps[cur].completedAt = Date]
     IN  IF halts(stamped.steps[cur])
           THEN /\ task' = [stamped EXCEPT !.steps[cur].status = "pending"]
                /\ pc' = "loop"
                /\ cur' = cur
           ELSE /\ task' = stamped
                /\ pc' = "loop"
                /\ cur' = cur + 1
  /\ UNCHANGED <<standalone, tools, eventHandlers, agent, input, context, call, dispatch,
                 events, ids, clock, outcome, history>>

\* executeStep returns (completedAt is set); execute breaks on a failed step
FinishStep ==
  /\ pc = "stepDone"
  /\ Delivered
  /\ LET stamped == [task EXCEPT !.steps[cur].completedAt = Date]
     IN  IF halts(stamped.steps[cur])
           THEN /\ task' = failedBy(stamped, stamped.steps[cur])
                /\ pc' = "complete"
                /\ cur' = cur
           ELSE /\ task' = stamped
                /\ pc' = "loop"
                /\ cur' = cur + 1
  /\ UNCHANGED <<standalone, tools, eventHandlers, agent, input, context, call, dispatch,
                 events, ids, clock, outcome, history>>

\* an execute that takes every task that left the loop for a success
succeededAlways(t) == TRUE

\* if (task.status === 'executing')
succeeded(t) == t.status = "executing"

\* the task completes: the results are aggregated; task:completed
CompleteTask ==
  /\ pc = "complete"
  /\ succeeded(task)
  /\ task' = [task EXCEPT !.status = "completed",
                          !.result = aggregateResults(task.steps)]
  /\ emitEvent("task:completed", task.id, Undefined)
  /\ pc' = "finishing"
  /\ UNCHANGED <<standalone, tools, eventHandlers, agent, input, context, cur, call, ids,
                 clock, outcome, history>>

\* a step failed: task:failed
FailTask ==
  /\ pc = "complete"
  /\ ~succeeded(task)
  /\ emitEvent("task:failed", task.id, Undefined)
  /\ pc' = "finishing"
  /\ UNCHANGED <<standalone, tools, eventHandlers, agent, input, task, context, cur, call,
                 ids, clock, outcome, history>>

\* an execute that returns the task without its completedAt
ReturnUnstamped ==
  /\ pc = "finishing"
  /\ Delivered
  /\ outcome' = "returned"
  /\ pc' = "done"
  /\ UNCHANGED <<standalone, tools, eventHandlers, agent, input, task, context, cur, call,
                 dispatch, events, ids, clock, history>>

\* task.completedAt = new Date(); return task
Return ==
  /\ pc = "finishing"
  /\ Delivered
  /\ task' = [task EXCEPT !.completedAt = Date]
  /\ outcome' = "returned"
  /\ pc' = "done"
  /\ UNCHANGED <<standalone, tools, eventHandlers, agent, input, context, cur, call,
                 dispatch, events, ids, clock, history>>

\* TaskStatus: what a caller can pass to updateTaskStatus
TaskStatuses == {"pending", "planning", "executing", "completed", "failed", "cancelled"}

\* updateTaskStatus(task, status), called by the caller of execute on the
\* Task it was handed: task.status = status
UpdateTaskStatus ==
  \E status \in TaskStatuses :
    /\ outcome = "returned"
    /\ task' = [task EXCEPT !.status = status]
    /\ UNCHANGED <<standalone, tools, eventHandlers, agent, input, pc, context, cur, call,
                   dispatch, events, ids, clock, outcome, history>>

\* time passes
Tick ==
  /\ clock < MaxClock
  /\ clock' = clock + 1
  /\ UNCHANGED <<standalone, tools, eventHandlers, agent, input, pc, task, context, cur,
                 call, dispatch, events, ids, outcome, history>>

\* ------------------------------------------------------------------------
\* Specifications
\* ------------------------------------------------------------------------

Next ==
  \/ RejectInput
  \/ CreateTask
  \/ HandlerReturns
  \/ HandlerThrows
  \/ StartTask
  \/ BeginPlanning
  \/ PlanWithoutTools
  \/ PlannerReturns
  \/ PlannerThrows
  \/ PlanRejects
  \/ BeginExecution
  \/ StartStep
  \/ LeaveLoop
  \/ ResolveFails
  \/ RegistryRejects
  \/ InvokeTool
  \/ ToolSettles
  \/ FinishStep
  \/ CompleteTask
  \/ FailTask
  \/ Return

Spec == Init /\ [][Next]_vars

\* the same when the planner, the tools and the handlers settle and the
\* event loop runs every continuation that is ready: a step that can be
\* taken is taken
SpecLive == Init /\ [][Next]_vars /\ WF_vars(Next)

\* the same with the caller free to set the status of the Task it got back
SpecStatus == Init /\ [][Next \/ UpdateTaskStatus]_vars

\* the calls whose timestamps are followed: the registries of at most one
\* tool, and handlers only where the plan is the empty registry's
InitTime ==
  /\ Init
  /\ tools \in {<<>>, <<myCustomTool>>}
  /\ eventHandlers = <<>> \/ (tools = <<>> /\ Len(eventHandlers) = 1)

\* the same with time passing between any two steps
SpecTime == InitTime /\ [][Next \/ Tick]_vars

\* ------------------------------------------------------------------------
\* Two execute calls of one agent (agents/base.ts): the registry, the
\* handlers and the source of identifiers are the agent's; the input, the
\* task, the context, the loop positions and the tool invocation in flight
\* are locals of each call
\* ------------------------------------------------------------------------

\* the locals of the call that runs
Running ==
  [input |-> input, pc |-> pc, task |-> task, context |-> context, cur |-> cur,
   call |-> call, dispatch |-> dispatch, events |-> events, outcome |-> outcome,
   history |-> history]

\* the inputs of the two calls: one that is valid and one that is not
PairInputs ==
  { RawInput(Str(<<"Run", " ", "My", " ", "custom", " ", "tool">>), Str(<<"high">>),
             Obj([k \in {"input"} |-> Str(<<"x">>)]), Num(1)),
    RawInput(Str(<<>>), Undefined, Undefined, Undefined) }

\* a call that has not begun
Fresh(given) ==
  [input |-> given, pc |-> "idle", task |-> NoTask, context |-> NoContext,
   cur |-> 0, call |-> NoCall, dispatch |-> Len(eventHandlers) + 1, events |-> <<>>,
   outcome |-> "none", history |-> NoHistory]

\* execute was called twice before either call went on: the agents of
\* InitTime, each call with an input of its own
InitPair ==
  /\ tools \in {<<>>, <<myCustomTool>>}
  /\ eventHandlers \in {[i \in 1..n |-> IndexKey(i)] : n \in 0..1}
  /\ eventHandlers = <<>> \/ tools = <<>>
  /\ agent \in Agents
  /\ ids = 0
  /\ clock = 0
  /\ input \in PairInputs
  /\ pc = "idle"
  /\ task = NoTask
  /\ context = NoContext
  /\ cur = 0
  /\ call = NoCall
  /\ dispatch = Len(eventHandlers) + 1
  /\ events = <<>>
  /\ outcome = "none"
  /\ history = NoHistory
  /\ \E second \in PairInputs : other = Fresh(second)
  /\ resolving = NotCalled
  /\ reg = NotCalled
  /\ retrying = NotCalled
  /\ breaker = NotCalled
  /\ bus = NotCalled

\* the locals of the other call become those of the call that runs
Resumed ==
  /\ input' = other.input
  /\ pc' = other.pc
  /\ task' = other.task
  /\ cur' = other.cur
  /\ call' = other.call
  /\ dispatch' = other.dispatch
  /\ events' = other.events
  /\ outcome' = other.outcome
  /\ history' = other.history

\* an agent that keeps the context in a field: the call that goes on finds
\* the context the other call left
SwitchSharingContext ==
  /\ other # NotCalled
  /\ Resumed
  /\ other' = Running
  /\ UNCHANGED <<tools, eventHandlers, agent, ids, clock, context, resolving, reg,
                 retrying, breaker, bus>>

\* the call that runs is suspended at an await and the other call goes on
Switch ==
  /\ other # NotCalled
  /\ Resumed
  /\ context' = other.context
  /\ other' = Running
  /\ UNCHANGED <<tools, eventHandlers, agent, ids, clock, resolving, reg, retrying,
                 breaker, bus>>

SpecPair == InitPair /\ [][Next \/ Switch]_vars

\* ------------------------------------------------------------------------
\* resolveParameters on its own: every parameter map against every context
\* ------------------------------------------------------------------------

\* the deepest nesting of the parameter values
MaxDepth == 2

\* `step.${step.id}.result` of the first and of the second step identifier
StoredKey == resultKey(generateId("step", 1))

OtherKey == resultKey(generateId("step", 2))

\* "$" followed by a variable path
Reference(key) == Str(<<"$">> \o key)

\* what executeStep stores under a key: result.data, whenever it is not
\* undefined
StoredValues ==
  { Obj([k \in {"x"} |-> Num(5)]),
    Obj([k \in {"x"} |-> Reference(StoredKey)]),
    Num(0), Bool(FALSE), Str(<<>>), Null }

\* context.variables: empty, or holding the result of the first step
Contexts == { <<>> } \cup { (StoredKey :> x) : x \in StoredValues }

\* parameter values that hold no other value
Leaves ==
  { Reference(StoredKey), Reference(OtherKey), Str(<<"$">>),
    Str(<<"U", "S", "$">>), Str(<<>>), Num(5), Bool(TRUE), Null }

\* parameter values nested up to d deep: objects and arrays
RECURSIVE ValuesUpTo(_)
ValuesUpTo(d) ==
  IF d = 0 THEN Leaves
  ELSE Leaves
         \cup { Obj([k \in {"x"} |-> x]) : x \in ValuesUpTo(d - 1) }
         \cup { Arr(<<x>>) : x \in ValuesUpTo(d - 1) }
         \cup { Arr(<<>>) }

\* step.parameters: a map of one or two parameters, an empty map, or no map
ParameterMaps ==
  { Obj([k \in {"p"} |-> x]) : x \in ValuesUpTo(MaxDepth) }
    \cup { Obj([k \in {"p", "q"} |-> IF k = "p" THEN x ELSE y]) :
             x \in ValuesUpTo(MaxDepth), y \in {Reference(StoredKey), Num(5)} }
    \cup { EmptyObj, Undefined, Null }

\* an agent with no handler, on which execute is not called
NotExecuting ==
  /\ eventHandlers = <<>>
  /\ agent = "AutomationAgent"
  /\ input = RawInput(Str(<<"add", " ", "30", " ", "days">>), Undefined, EmptyObj, Undefined)
  /\ pc = "idle"
  /\ task = NoTask
  /\ context = NoContext
  /\ cur = 0
  /\ dispatch = 1
  /\ events = <<>>
  /\ ids = 0
  /\ clock = 0
  /\ outcome = "none"
  /\ history = NoHistory

InitResolve ==
  /\ resolving \in [stage : {"drawn"}, params : ParameterMaps, variables : Contexts]
  /\ reg = NotCalled
  /\ retrying = NotCalled
  /\ tools = <<>>
  /\ call = NoCall
  /\ breaker = NotCalled
  /\ bus = NotCalled
  /\ other = NotCalled
  /\ NotExecuting

\* resolveParameters(params, context) returns the resolved object
Resolve ==
  /\ resolving.stage = "drawn"
  /\ ~resolveThrows(resolving.params)
  /\ resolving' = [stage |-> "resolved",
                   params |-> resolving.params,
                   variables |-> resolving.variables,
                   first |-> Obj(resolveParameters(resolving.params,
                                                   resolving.variables))]
  /\ UNCHANGED <<tools, call, executing, reg, retrying, breaker, bus, other>>

\* resolveParameters(params, context) throws
ResolveRaises ==
  /\ resolving.stage = "drawn"
  /\ resolveThrows(resolving.params)
  /\ resolving' = [stage |-> "raised",
                   params |-> resolving.params,
                   variables |-> resolving.variables,
                   thrown |-> entriesTypeError]
  /\ UNCHANGED <<tools, call, executing, reg, retrying, breaker, bus, other>>

\* resolveParameters applied to its own output, in the same context
ResolveAgain ==
  /\ resolving.stage = "resolved"
  /\ resolving' = [stage |-> "again",
                   params |-> resolving.params,
                   variables |-> resolving.variables,
                   first |-> resolving.first,
                   second |-> Obj(resolveParameters(resolving.first,
                                                    resolving.variables))]
  /\ UNCHANGED <<tools, call, executing, reg, retrying, breaker, bus, other>>

NextResolve ==
  \/ Resolve
  \/ ResolveRaises
  \/ ResolveAgain

SpecResolve == InitResolve /\ [][NextResolve]_vars

\* ------------------------------------------------------------------------
\* The registry on its own: register, registerMany, unregister and execute
\* called in any order
\* ------------------------------------------------------------------------

\* tools/builtin/index.ts: transform_json
transformJsonTool ==
  [name |-> Str(<<"transform", "_", "json">>),
   parameters |-> << Parameter("data", TRUE, Undefined),
                     Parameter("operation", TRUE, Undefined),
                     Parameter("path", FALSE, Undefined),
                     Parameter("fields", FALSE, Undefined) >>]

\* another definition under the name of the custom tool
myCustomToolAgain ==
  [name |-> Str(<<"my", "_", "custom", "_", "tool">>),
   parameters |-> << Parameter("input", TRUE, Undefined),
                     Parameter("mode", FALSE, Str(<<"fast">>)) >>]

\* the definitions the callers register
Definitions == {analyzeTextTool, transformJsonTool, myCustomTool, myCustomToolAgain}

\* index.ts: the list passed to registerMany at start-up
builtinTools == <<analyzeTextTool, transformJsonTool>>

\* the names the callers ask for
ToolNames ==
  {d.name : d \in Definitions} \cup {Str(<<"non", "_", "existent", "_", "tool">>)}

\* the parameter maps the callers pass to execute
ExecuteParams ==
  { <<>>,
    [k \in {"text"} |-> Str(<<"hello">>)],
    [k \in {"text"} |-> Undefined],
    [k \in {"input"} |-> Str(<<"x">>)],
    [k \in {"data"} |-> Num(1)],
    [k \in {"path"} |-> Str(<<"a.b">>)],
    [k \in {"data", "operation"} |-> Str(<<"pick">>)] }

InitRegistry ==
  /\ tools = <<>>
  /\ reg = [latest |-> [n \in ToolNames |-> Undefined], last |-> [call |-> "none"]]
  /\ call = NoCall
  /\ resolving = NotCalled
  /\ retrying = NotCalled
  /\ breaker = NotCalled
  /\ bus = NotCalled
  /\ other = NotCalled
  /\ NotExecuting

\* register(tool)
Register ==
  \E tool \in Definitions :
    /\ tools' = register(tools, tool)
    /\ reg' = [latest |-> [reg.latest EXCEPT ![tool.name] = tool],
               last |-> [call |-> "register", name |-> tool.name,
                         warned |-> has(tools, tool.name)]]
    /\ UNCHANGED <<call, executing, resolving, retrying, breaker, bus, other>>

\* registerMany(list)
RegisterMany ==
  \E list \in {builtinTools, <<myCustomTool, myCustomToolAgain>>} :
    /\ tools' = registerMany(tools, list)
    /\ reg' = [latest |->
                 [n \in ToolNames |->
                    LET at == {i \in 1..Len(list) : list[i].name = n}
                    IN  IF at = {} THEN reg.latest[n]
                        ELSE list[CHOOSE i \in at : \A j \in at : j <= i]],
               last |-> [call |-> "registerMany"]]
    /\ UNCHANGED <<call, executing, resolving, retrying, breaker, bus, other>>

\* unregister(name): returns whether the Map held the name
Unregister ==
  \E name \in ToolNames :
    /\ tools' = unregister(tools, name)
    /\ reg' = [latest |-> [reg.latest EXCEPT ![name] = Undefined],
               last |-> [call |-> "unregister", name |-> name,
                         value |-> Bool(has(tools, name)),
                         registered |-> reg.latest[name] # Undefined]]
    /\ UNCHANGED <<call, executing, resolving, retrying, breaker, bus, other>>

\* execute(name, params) returns before the tool's capability is reached
ExecuteRejects ==
  \E name \in ToolNames, params \in ExecuteParams :
    /\ call = NoCall
    /\ registryPath(tools, name, params) # "invoke"
    /\ reg' = [reg EXCEPT !.last =
                 [call |-> "execute", name |-> name, params |-> params,
                  tool |-> reg.latest[name], invoked |-> 0,
                  outcome |-> [kind |-> "none"],
                  value |-> IF registryPath(tools, name, params) = "notFound"
                              THEN notFoundResult(name)
                              ELSE missingResult(missingParams(get(tools, name), params))]]
    /\ UNCHANGED <<tools, call, executing, resolving, retrying, breaker, bus, other>>

\* execute(name, params) invokes the tool's capability and awaits it
ExecuteInvokes ==
  \E name \in ToolNames, params \in ExecuteParams :
    /\ call = NoCall
    /\ registryPath(tools, name, params) = "invoke"
    /\ call' = [name |-> name,
                params |-> applyDefaults(get(tools, name).parameters, params),
                startTime |-> clock,
                input |-> params,
                tool |-> reg.latest[name]]
    /\ UNCHANGED <<tools, executing, resolving, reg, retrying, breaker, bus, other>>

\* the capability returns or throws; execute returns its result
ExecuteSettles ==
  \E o \in ToolOutcomes :
    /\ call # NoCall
    /\ reg' = [reg EXCEPT !.last =
                 [call |-> "execute", name |-> call.name, params |-> call.input,
                  tool |-> call.tool, invoked |-> 1, outcome |-> o,
                  value |-> registryResult(o, clock - call.startTime)]]
    /\ call' = NoCall
    /\ UNCHANGED <<tools, executing, resolving, retrying, breaker, bus, other>>

NextRegistry ==
  \/ Register
  \/ RegisterMany
  \/ Unregister
  \/ ExecuteRejects
  \/ ExecuteInvokes
  \/ ExecuteSettles

SpecRegistry == InitRegistry /\ [][NextRegistry]_vars

\* ------------------------------------------------------------------------
\* withRetry (utils/retry.ts) on its own.  pRetry is the p-retry library:
\* it calls the function, stops at once on an AbortError, and otherwise
\* calls onFailedAttempt and tries again, after a delay, at most `retries`
\* times after the first attempt; when the retries are used up it rejects
\* with the last rejection reason.
\* ------------------------------------------------------------------------

\* the largest `retries` a caller passes
MaxRetries == 2

\* what an operation throws: an Error or not, an AbortError or not, a message
OperationError(isError, isAbort, message) ==
  [isError |-> isError, isAbort |-> isAbort, message |-> message]

\* the substrings of a message isRetryableError looks for
TransientMarkers ==
  {"ECONNRESET", "ETIMEDOUT", "429", "rate limit", "500", "502", "503",
   "overloaded", "capacity"}

\* isRetryableError(error)
isRetryableError(error) ==
  /\ ~error.isAbort
  /\ error.isError
  /\ \E marker \in TransientMarkers : includes(error.message, <<marker>>)

\* a function that rethrows every error as it is
rethrownAsIs(error) == error

\* what the function handed to pRetry throws when the operation throws
rethrown(error) ==
  IF ~isRetryableError(error)
    THEN OperationError(TRUE, TRUE,
                        IF error.isError THEN error.message
                        ELSE <<"Non-retryable error">>)
    ELSE error

\* what withRetry rejects with: the Error an AbortError was made from, or,
\* when the retries are used up, the rejection reason of the last attempt
surfaced(error) ==
  IF rethrown(error).isAbort
    THEN OperationError(TRUE, FALSE, rethrown(error).message)
    ELSE rethrown(error)

\* a budget that counts the first attempt as a retry
mayRetryShort(options, attempt) == attempt < options.retries

\* a budget of one attempt more than retries + 1
mayRetryOnceMore(options, attempt) == attempt <= options.retries + 1

\* retries: options.retries -- after a failed attempt, another one is due
mayRetry(options, attempt) == attempt <= options.retries

\* maxTimeout: options.maxTimeout ?? options.minTimeout * 10
maxTimeout(options) ==
  IF Nullish(options.maxTimeout) THEN options.minTimeout * 10
  ELSE options.maxTimeout.v

\* a default factor of 1: the delay never grows
factorOne(options) == IF Nullish(options.factor) THEN 1 ELSE options.factor.v

\* factor: options.factor ?? 2
factor(options) == IF Nullish(options.factor) THEN 2 ELSE options.factor.v

RECURSIVE power(_, _)
power(b, n) == IF n = 0 THEN 1 ELSE b * power(b, n - 1)

\* the delay before the k-th retry
backoff(options, k) ==
  LET grown == options.minTimeout * power(factor(options), k - 1)
  IN  IF grown < maxTimeout(options) THEN grown ELSE maxTimeout(options)

\* the options the callers pass
RetryOptions ==
  [retries : 0..MaxRetries, minTimeout : {100},
   maxTimeout : {Undefined, Num(250)}, factor : {Undefined, Num(12)}]

\* what the operation throws
OperationErrors ==
  { OperationError(TRUE, FALSE, <<"Request failed with status ", "503">>),
    OperationError(TRUE, FALSE, <<"rate limit", " exceeded">>),
    OperationError(TRUE, FALSE, <<"Request failed with status ", "504">>),
    OperationError(TRUE, FALSE, <<"Invalid API key">>),
    OperationError(TRUE, TRUE, <<"stop">>),
    OperationError(TRUE, TRUE, <<"Request failed with status ", "503">>),
    OperationError(FALSE, FALSE, <<>>) }

\* what the operation resolves to
OperationValues == { Str(<<"ok">>), Null }

InitRetry ==
  /\ retrying \in [phase : {"start"}, options : RetryOptions, invoked : {0},
                   outcomes : {<<>>}, onRetry : {0}, waited : {<<>>},
                   value : {Undefined}, error : {Undefined}]
  /\ resolving = NotCalled
  /\ reg = NotCalled
  /\ tools = <<>>
  /\ call = NoCall
  /\ breaker = NotCalled
  /\ bus = NotCalled
  /\ other = NotCalled
  /\ NotExecuting

\* pRetry calls the function, which calls the operation: at once for the
\* first attempt, when the delay has passed for the others
Attempt ==
  /\ retrying.phase \in {"start", "waiting"}
  /\ retrying' = [retrying EXCEPT !.phase = "calling", !.invoked = @ + 1]
  /\ UNCHANGED <<tools, call, executing, resolving, reg, breaker, bus, other>>

\* the operation resolves: withRetry resolves to its value
AttemptSucceeds ==
  \E x \in OperationValues :
    /\ retrying.phase = "calling"
    /\ retrying' = [retrying EXCEPT
                      !.phase = "returned",
                      !.value = x,
                      !.outcomes = Append(@, [kind |-> "return", value |-> x])]
    /\ UNCHANGED <<tools, call, executing, resolving, reg, breaker, bus, other>>

\* the operation rejects: an error that is not retryable is rethrown as an
\* AbortError and withRetry rejects; for any other, onFailedAttempt runs and
\* either the next attempt is scheduled or withRetry rejects
AttemptFails ==
  \E error \in OperationErrors :
    /\ retrying.phase = "calling"
    /\ retrying' =
         LET failed == [retrying EXCEPT
                          !.outcomes = Append(@, [kind |-> "throw", thrown |-> error])]
         IN  IF rethrown(error).isAbort
               THEN [failed EXCEPT !.phase = "rejected", !.error = surfaced(error)]
             ELSE IF mayRetry(retrying.options, retrying.invoked)
               THEN [failed EXCEPT
                       !.phase = "waiting",
                       !.onRetry = @ + 1,
                       !.waited = Append(@, backoff(retrying.options, retrying.invoked))]
             ELSE [failed EXCEPT !.phase = "rejected", !.onRetry = @ + 1,
                                 !.error = surfaced(error)]
    /\ UNCHANGED <<tools, call, executing, resolving, reg, breaker, bus, other>>

NextRetry ==
  \/ Attempt
  \/ AttemptSucceeds
  \/ AttemptFails

SpecRetry == InitRetry /\ [][NextRetry]_vars

\* ------------------------------------------------------------------------
\* CircuitBreaker (utils/retry.ts) and its callers.  A call of execute runs
\* up to its await in one step; the wrapped operation settles in a later
\* one, so that several calls can be in flight.
\* ------------------------------------------------------------------------

\* the largest failureThreshold a breaker is built with
MaxThreshold == 2

\* how many calls of execute the callers make
MaxCalls == 4

\* how far the clock runs
MaxTime == 3

\* the options a breaker is built with
CircuitBreakerOptions == [failureThreshold : 1..MaxThreshold, resetTimeoutMs : 1..2]

\* new CircuitBreaker(options): the fields of the object, then what the
\* callers see -- the clock, the operations in flight (the ones admitted
\* by the open -> half-open branch apart), the calls made, the operations
\* invoked, how each finished call ended, whether two calls ever overlapped
InitBreaker ==
  /\ breaker \in [state : {"closed"}, failures : {0}, lastFailureTime : {Undefined},
                  options : CircuitBreakerOptions, now : {0},
                  inflight : {[plain |-> 0, probe |-> 0]}, calls : {0},
                  invoked : {0}, log : {<<>>}, overlapped : {FALSE}]
  /\ resolving = NotCalled
  /\ reg = NotCalled
  /\ retrying = NotCalled
  /\ bus = NotCalled
  /\ other = NotCalled
  /\ tools = <<>>
  /\ call = NoCall
  /\ NotExecuting

\* shouldAttemptReset()
shouldAttemptReset(b) ==
  IF b.lastFailureTime = Undefined THEN TRUE
  ELSE b.now - b.lastFailureTime.v >= b.options.resetTimeoutMs

\* an onSuccess that closes the breaker and keeps the count
onSuccessKeepsCount(b) == [b EXCEPT !.state = "closed"]

\* onSuccess()
onSuccess(b) == [b EXCEPT !.failures = 0, !.state = "closed"]

\* a breaker that opens one failure late
onFailureLate(b) ==
  [b EXCEPT !.failures = @ + 1,
            !.lastFailureTime = Num(b.now),
            !.state = IF b.failures + 1 > b.options.failureThreshold
                        THEN "open" ELSE @]

\* onFailure()
onFailure(b) ==
  [b EXCEPT !.failures = @ + 1,
            !.lastFailureTime = Num(b.now),
            !.state = IF b.failures + 1 >= b.options.failureThreshold
                        THEN "open" ELSE @]

InFlight(b) == b.inflight.plain + b.inflight.probe

\* execute(operation) while open and too early to try again:
\* throws 'Circuit breaker is open'
CallRejected ==
  /\ breaker.calls < MaxCalls
  /\ breaker.state = "open"
  /\ ~shouldAttemptReset(breaker)
  /\ breaker' = [breaker EXCEPT !.calls = @ + 1, !.log = Append(@, "rejected")]
  /\ UNCHANGED <<tools, call, executing, resolving, reg, retrying, bus, other>>

\* execute(operation) up to `await operation()`: an open breaker whose
\* timeout has passed becomes half-open; the operation is invoked
CallAdmitted ==
  /\ breaker.calls < MaxCalls
  /\ breaker.state = "open" => shouldAttemptReset(breaker)
  /\ breaker' =
       [breaker EXCEPT
          !.calls = @ + 1,
          !.invoked = @ + 1,
          !.overlapped = @ \/ InFlight(breaker) > 0,
          !.state = IF @ = "open" THEN "half-open" ELSE @,
          !.inflight = IF breaker.state = "open"
                         THEN [@ EXCEPT !.probe = @ + 1]
                         ELSE [@ EXCEPT !.plain = @ + 1]]
  /\ UNCHANGED <<tools, call, executing, resolving, reg, retrying, bus, other>>

\* the operation resolves: onSuccess(), and execute returns the result
OperationSucceeds ==
  \E kind \in {"plain", "probe"} :
    /\ breaker.inflight[kind] > 0
    /\ breaker' = [onSuccess(breaker) EXCEPT
                     !.inflight[kind] = @ - 1,
                     !.log = Append(@, "success")]
    /\ UNCHANGED <<tools, call, executing, resolving, reg, retrying, bus, other>>

\* the operation rejects: onFailure(), and execute rethrows the error
OperationFails ==
  \E kind \in {"plain", "probe"} :
    /\ breaker.inflight[kind] > 0
    /\ breaker' = [onFailure(breaker) EXCEPT
                     !.inflight[kind] = @ - 1,
                     !.log = Append(@, "failure")]
    /\ UNCHANGED <<tools, call, executing, resolving, reg, retrying, bus, other>>

\* Date.now() moves on
TimePasses ==
  /\ breaker.now < MaxTime
  /\ breaker' = [breaker EXCEPT !.now = @ + 1]
  /\ UNCHANGED <<tools, call, executing, resolving, reg, retrying, bus, other>>

NextBreaker ==
  \/ CallRejected
  \/ CallAdmitted
  \/ OperationSucceeds
  \/ OperationFails
  \/ TimePasses

SpecBreaker == InitBreaker /\ [][NextBreaker]_vars

\* ------------------------------------------------------------------------
\* BaseAgent.onEvent and emitEvent with handlers that come and go
\* (agents/base.ts): the array holds the handler functions; which onEvent
\* call pushed an entry is recorded next to it (observation only)
\* ------------------------------------------------------------------------

\* the handler functions a host passes to onEvent
HandlerFunctions == {"log", "count"}

\* the most onEvent calls
MaxRegistrations == 3

\* the most calls of the functions onEvent returned
MaxRemovals == 3

\* the most events emitted
MaxEmits == 2

\* the agent is constructed: eventHandlers = []; then what the host sees --
\* the handler each onEvent call was given, the calls of the returned
\* functions, the events emitted, the for loop of emitEvent, the
\* registrations in the array when the last event was emitted, and who
\* was called with which event
InitBus ==
  /\ bus = [eventHandlers |-> <<>>, registrations |-> <<>>, removals |-> <<>>,
            emitted |-> 0, dispatching |-> FALSE, next |-> 1, atEmit |-> {},
            received |-> <<>>]
  /\ resolving = NotCalled
  /\ reg = NotCalled
  /\ retrying = NotCalled
  /\ breaker = NotCalled
  /\ other = NotCalled
  /\ tools = <<>>
  /\ call = NoCall
  /\ NotExecuting

\* this.eventHandlers.indexOf(handler), from 1; 0 for -1
indexOf(handlers, handler) ==
  IF \E i \in 1..Len(handlers) : handlers[i].handler = handler
    THEN CHOOSE i \in 1..Len(handlers) :
           /\ handlers[i].handler = handler
           /\ \A j \in 1..(i - 1) : handlers[j].handler # handler
    ELSE 0

\* handlers.splice(index, 1)
splice(handlers, index) ==
  [i \in 1..(Len(handlers) - 1) |-> IF i < index THEN handlers[i] ELSE handlers[i + 1]]

\* onEvent(handler): this.eventHandlers.push(handler)
pushed(b, handler) ==
  [b EXCEPT !.eventHandlers =
                Append(@, [handler |-> handler, by |-> Len(b.registrations) + 1]),
            !.registrations = Append(@, handler)]

\* the function onEvent returned for its r-th call: indexOf, then splice
removed(b, r) ==
  LET index == indexOf(b.eventHandlers, b.registrations[r])
  IN  [b EXCEPT !.eventHandlers = IF index > 0 THEN splice(@, index) ELSE @,
                !.removals = Append(@, r)]

\* the host calls onEvent(handler)
OnEvent ==
  \E handler \in HandlerFunctions :
    /\ Len(bus.registrations) < MaxRegistrations
    /\ bus' = pushed(bus, handler)
    /\ UNCHANGED <<tools, call, executing, resolving, reg, retrying, breaker, other>>

\* the host calls a function onEvent returned
Deregister ==
  \E r \in 1..Len(bus.registrations) :
    /\ Len(bus.removals) < MaxRemovals
    /\ bus' = removed(bus, r)
    /\ UNCHANGED <<tools, call, executing, resolving, reg, retrying, breaker, other>>

\* emitEvent(event), up to the for loop
Emit ==
  /\ ~bus.dispatching
  /\ bus.emitted < MaxEmits
  /\ bus' = [bus EXCEPT !.emitted = @ + 1, !.dispatching = TRUE, !.next = 1,
                        !.atEmit = {bus.eventHandlers[i].by :
                                      i \in 1..Len(bus.eventHandlers)}]
  /\ UNCHANGED <<tools, call, executing, resolving, reg, retrying, breaker, other>>

\* what a handler does when it is called, before it returns
HandlerEffects == {"returns", "deregisters", "registers"}

\* the for loop of emitEvent takes the next entry of the array as it is
\* now and awaits the handler; the handler may call the function its own
\* onEvent call returned, or onEvent
HandlerCalled ==
  \E effect \in HandlerEffects, handler \in HandlerFunctions :
    /\ bus.dispatching
    /\ bus.next <= Len(bus.eventHandlers)
    /\ LET called == bus.eventHandlers[bus.next]
           got == [bus EXCEPT !.received = Append(@, <<called.by, bus.emitted>>),
                              !.next = @ + 1]
       IN  CASE effect = "returns" ->
                  /\ handler = called.handler
                  /\ bus' = got
             [] effect = "deregisters" ->
                  /\ handler = called.handler
                  /\ Len(bus.removals) < MaxRemovals
                  /\ bus' = removed(got, called.by)
             [] effect = "registers" ->
                  /\ Len(bus.registrations) < MaxRegistrations
                  /\ bus' = pushed(got, handler)
    /\ UNCHANGED <<tools, call, executing, resolving, reg, retrying, breaker, other>>

\* the for loop of emitEvent finds no further entry: emitEvent returns
EmitReturns ==
  /\ bus.dispatching
  /\ bus.next > Len(bus.eventHandlers)
  /\ bus' = [bus EXCEPT !.dispatching = FALSE]
  /\ UNCHANGED <<tools, call, executing, resolving, reg, retrying, breaker, other>>

NextBus ==
  \/ OnEvent
  \/ Deregister
  \/ Emit
  \/ HandlerCalled
  \/ EmitReturns

SpecBus == InitBus /\ [][NextBus]_vars

\* ------------------------------------------------------------------------
\* Properties
\* ------------------------------------------------------------------------

Returned == outcome = "returned"

Range(f) == {f[i] : i \in DOMAIN f}

Steps == 1..Len(task.steps)

AllCompleted == \A i \in Steps : task.steps[i].status = "completed"

\* how many events of this type were emitted
Emitted(type) == Cardinality({k \in 1..Len(events) : events[k].type = type})

StepStarted(id) ==
  \E k \in 1..Len(events) : events[k].type = "step:started" /\ events[k].stepId = id

\* C1: the Task execute returns has status completed or failed, whatever the
\* planner, the tools and the handlers did.
C1_ReturnedTaskIsSettled ==
  Returned => task.status \in {"completed", "failed"}

C1_Witness ==
  /\ Returned
  /\ history.toolThrew
  /\ history.handlerThrew
  /\ task.status = "failed"

\* C2 as stated: execute raises only for invalid input, and a throwing plan,
\* tool, parameter resolution or event handler each ends in a returned Task
\* with status failed and an error message.
C2_EveryThrowFailsTheTask ==
  /\ validInput(input) => outcome # "raised"
  /\ ~validInput(input) => task = NoTask /\ events = <<>> /\ ~Returned
  /\ (Returned /\ (\/ history.planThrew
                   \/ history.toolThrew
                   \/ history.resolveThrew
                   \/ history.handlerThrew))
       => task.status = "failed" /\ task.error.t = "string"

\* C2 amended: execute raises only for invalid input, which is rejected before
\* any Task or event exists; a throwing plan, tool or parameter resolution
\* ends in a returned Task with status failed and an error message; a
\* throwing handler is caught by emitEvent and execute still returns a Task
\* that is completed or failed.
C2_ThrowsAreContained ==
  /\ validInput(input) => outcome # "raised"
  /\ ~validInput(input) => task = NoTask /\ events = <<>> /\ ~Returned
  /\ (Returned /\ (\/ history.planThrew
                   \/ history.toolThrew
                   \/ history.resolveThrew))
       => task.status = "failed" /\ task.error.t = "string"
  /\ (Returned /\ history.handlerThrew) => task.status \in {"completed", "failed"}

C2_Witness ==
  /\ Returned
  /\ history.handlerThrew
  /\ ~history.planThrew /\ ~history.toolThrew /\ ~history.resolveThrew
  /\ task.status = "completed"

\* C3: when step i ended failed, every later step of the returned Task is
\* still pending with no startedAt, was given to no tool and to no
\* registry call, has no step:started event, and the task is failed.
C3_FailureHaltsThePlan ==
  Returned =>
    \A i \in Steps :
      task.steps[i].status = "failed" =>
        /\ task.status = "failed"
        /\ \A j \in Steps :
             j > i =>
               /\ task.steps[j].status = "pending"
               /\ task.steps[j].startedAt = Undefined
               /\ j \notin Range(history.registryCalls)
               /\ j \notin Range(history.invocations)
               /\ ~StepStarted(task.steps[j].id)

C3_Witness ==
  /\ Returned
  /\ Len(task.steps) = 3
  /\ task.steps[1].status = "completed"
  /\ task.steps[2].status = "failed"
  /\ task.steps[3].status = "pending"

\* C4: in the returned Task, status completed implies every step completed,
\* and for every plan the planner returned (the empty one included) every
\* step completed implies status completed.
C4_CompletedIffAllStepsCompleted ==
  Returned =>
    /\ task.status = "completed" => AllCompleted
    /\ (history.planReturned /\ AllCompleted) => task.status = "completed"

C4_Witness ==
  /\ Returned
  /\ history.planReturned
  /\ Len(task.steps) = 0
  /\ task.status = "completed"

CompletedIds == {task.steps[i].id : i \in {j \in Steps : task.steps[j].status = "completed"}}

DefinedIds ==
  {task.steps[i].id : i \in {j \in Steps : /\ task.steps[j].status = "completed"
                                           /\ task.steps[j].result # Undefined}}

\* C5 as stated: the keys of the aggregated result of a completed task are
\* the ids of the completed steps, whatever the tools returned.
C5_ResultKeysAreCompletedSteps ==
  (Returned /\ task.status = "completed") => DOMAIN task.result.v = CompletedIds

\* C5 amended: the keys of the aggregated result of a completed task are the
\* ids of the completed steps whose result is not undefined (null counts as
\* a result); each key maps to the step's name and result.
C5_ResultKeysAreDefinedResults ==
  (Returned /\ task.status = "completed") =>
    /\ task.result.t = "object"
    /\ DOMAIN task.result.v = DefinedIds
    /\ \A i \in Steps :
         task.steps[i].id \in DefinedIds =>
           /\ task.result.v[task.steps[i].id].v["name"] = task.steps[i].name
           /\ task.result.v[task.steps[i].id].v["result"] = task.steps[i].result

C5_Witness ==
  /\ Returned
  /\ task.status = "completed"
  /\ \E i \in Steps : task.steps[i].result = Undefined
  /\ \E i \in Steps : task.steps[i].result = Null
  /\ \E i \in Steps : task.steps[i].result.t = "object"

NoToolsCase == agent = "AutomationAgent" /\ Len(tools) = 0 /\ Returned

\* C6 as stated: with no tool registered, a valid task gets a plan of one
\* fallback step and is returned completed.
C6_NoToolsCompletes ==
  NoToolsCase => Len(task.steps) = 1 /\ task.status = "completed"

\* C6 amended: with no tool registered, a valid task gets a plan of one
\* fallback step naming analyze_text; the registry does not know the tool, so
\* no tool is invoked and the Task is returned failed with the error
\* "Tool 'analyze_text' not found".
C6_NoToolsFailsOnFallbackStep ==
  NoToolsCase =>
    /\ Len(task.steps) = 1
    /\ task.steps[1].toolName = Str(<<"analyze", "_", "text">>)
    /\ task.steps[1].parameters = Obj([k \in {"text"} |-> task.input.description])
    /\ task.steps[1].status = "failed"
    /\ history.invocations = <<>>
    /\ task.status = "failed"
    /\ task.error = Str(<<"Tool '", "analyze", "_", "text", "' not found">>)

C6_Witness ==
  /\ NoToolsCase
  /\ task.input.description = Str(<<"add", " ", "30", " ", "days">>)
  /\ task.input.context = EmptyObj
  /\ Len(task.steps) = 1

\* C7: a task never completes with an empty step sequence: after planning
\* the task has a step or fails with "no steps produced".
C7_NoCompletionWithoutSteps ==
  Returned =>
    \/ Len(task.steps) >= 1
    \/ task.status = "failed"

\* C8: when the planner collaborator fails, the task has the single-step
\* heuristic plan, task:planned was emitted, the returned task went through
\* executing, and it is failed only when its one step failed, with that
\* step's error.
C8_PlannerFailureFallsBack ==
  history.plannerFailed =>
    /\ Len(task.steps) = 1
    /\ task.steps[1].toolName \in
         {Str(<<"analyze", "_", "text">>)} \cup Range(getNames(tools))
    /\ Emitted("task:planned") = 1
    /\ Returned =>
         /\ history.reachedExecuting
         /\ task.status = "failed" =>
              task.steps[1].status = "failed" /\ task.error = task.steps[1].error

C8_Witness ==
  /\ Returned
  /\ history.plannerFailed
  /\ task.status = "completed"

\* C9: once executeStep has returned for a step (completedAt is set, which
\* holds of every started step of a returned Task), the step is completed
\* or failed, and a failed step has an error.
C9_StepEndsSettledWithError ==
  /\ \A i \in Steps :
       task.steps[i].completedAt # Undefined =>
         /\ task.steps[i].status \in {"completed", "failed"}
         /\ task.steps[i].status = "failed" => task.steps[i].error # Undefined
  /\ Returned =>
       \A i \in Steps :
         task.steps[i].startedAt # Undefined => task.steps[i].completedAt # Undefined

\* C10: a Task returned failed has an error message and exactly one
\* task:failed event; a Task returned completed has no error and exactly one
\* task:completed event.
C10_FinalStatusErrorAndEvent ==
  Returned =>
    /\ task.status = "failed" =>
         /\ task.error # Undefined
         /\ Emitted("task:failed") = 1
         /\ Emitted("task:completed") = 0
    /\ task.status = "completed" =>
         /\ task.error = Undefined
         /\ Emitted("task:completed") = 1
         /\ Emitted("task:failed") = 0

\* ------------------------------------------------------------------------
\* Properties of resolveParameters
\* ------------------------------------------------------------------------

\* a string that starts with the sigil
IsReference(value) == value.t = "string" /\ startsWithSigil(value.v)

\* resolveParameters has returned
Resolved == resolving.stage \in {"resolved", "again"}

\* a "$"-prefixed string occurs in the value, at any depth
RECURSIVE HasReference(_)
HasReference(value) ==
  \/ IsReference(value)
  \/ /\ value.t = "object"
     /\ \E k \in DOMAIN value.v : HasReference(value.v[k])
  \/ /\ value.t = "array"
     /\ \E i \in 1..Len(value.v) : HasReference(value.v[i])

\* an array occurs in the value, at any depth
RECURSIVE HasArray(_)
HasArray(value) ==
  \/ value.t = "array"
  \/ /\ value.t = "object"
     /\ \E k \in DOMAIN value.v : HasArray(value.v[k])

\* C11: a top-level parameter that is a reference to a key present in the
\* context variables resolves to the value stored under that key, whatever
\* that value is (object, number, boolean, empty string, null), verbatim.
C11_ReferenceYieldsStoredValue ==
  Resolved =>
    \A k \in DOMAIN resolving.params.v :
      LET value == resolving.params.v[k]
      IN  (IsReference(value) /\ Tail(value.v) \in DOMAIN resolving.variables)
            => resolving.first.v[k] = resolving.variables[Tail(value.v)]

\* C12: a parameter map with no "$"-prefixed string at any depth resolves to
\* a map equal to itself, and resolving the output again gives the same map.
C12_NoReferenceIsFixedPoint ==
  (resolving.stage = "again" /\ ~HasReference(resolving.params)) =>
    /\ resolving.first = resolving.params
    /\ resolving.second = resolving.first

\* every reference to an unknown key is still there, at the same place
RECURSIVE KeepsUnknown(_, _, _)
KeepsUnknown(in, out, variables) ==
  /\ out.t = "object"
  /\ \A k \in DOMAIN entries(in) :
       LET value == entries(in)[k]
       IN  /\ k \in DOMAIN out.v
           /\ (IsReference(value) /\ Tail(value.v) \notin DOMAIN variables)
                => out.v[k] = value
           /\ value.t \in {"object", "array"}
                => KeepsUnknown(value, out.v[k], variables)

\* C13: for every parameter map and every context resolveParameters returns
\* without throwing, and every "$"-prefixed string whose remainder is not a
\* key of the variables is in the output unchanged, sigil included.
C13_ResolveNeverFailsAndKeepsUnknown ==
  /\ resolving.stage = "raised" => resolving.params.t # "object"
  /\ Resolved => KeepsUnknown(resolving.params, resolving.first, resolving.variables)

C13_Witness ==
  /\ Resolved
  /\ resolving.variables # <<>>
  /\ resolving.params = Obj([k \in {"p"} |-> Obj([j \in {"x"} |-> Reference(OtherKey)])])
  /\ resolving.first = resolving.params

\* C14: a top-level parameter that is an array comes out as the same array,
\* no element substituted, and a number, a boolean or null comes out
\* unchanged.
C14_ArraysAndScalarsPassThrough ==
  Resolved =>
    \A k \in DOMAIN resolving.params.v :
      resolving.params.v[k].t \in {"array", "number", "boolean", "null"}
        => resolving.first.v[k] = resolving.params.v[k]

\* ------------------------------------------------------------------------
\* Properties of the registry
\* ------------------------------------------------------------------------

\* the last call that returned is an execute
Executed == reg.last.call = "execute"

\* the last execute was for a name with no registration in force
ExecutedUnknown == Executed /\ reg.last.tool = Undefined

\* the names of the required parameters of the tool of the last execute that
\* its input map does not hold
AbsentRequired ==
  LET ps == reg.last.tool.parameters
  IN  {ps[i].name : i \in {j \in 1..Len(ps) :
                             ps[j].required /\ ps[j].name \notin DOMAIN reg.last.params}}

\* the names an error message lists after its first symbol, separators apart
Listed(message) == {message[i] : i \in 2..Len(message)} \ {", "}

\* C15: execute for a name that is not registered returns a failure whose
\* error says the tool was not found and invokes no capability; get for a
\* name that is not registered returns undefined.
C15_UnknownToolFailsWithoutInvoking ==
  /\ \A n \in ToolNames : reg.latest[n] = Undefined => get(tools, n) = Undefined
  /\ ExecutedUnknown =>
       /\ reg.last.value.success = FALSE
       /\ reg.last.value.error = Str(<<"Tool '">> \o reg.last.name.v \o <<"' not found">>)
       /\ reg.last.invoked = 0

C15_Witness ==
  /\ ExecutedUnknown
  /\ Len(tools) > 0
  /\ reg.last.value.success = FALSE
  /\ get(tools, reg.last.name) = Undefined

\* C16: every result execute returns has executionTimeMs in its metadata:
\* for an unknown tool, a missing required parameter, a tool that succeeds,
\* a tool that returns a failure and a tool that throws.
C16_EveryResultCarriesExecutionTime ==
  Executed =>
    /\ reg.last.value.metadata.t = "object"
    /\ "executionTimeMs" \in DOMAIN reg.last.value.metadata.v

C18_ThrowBecomesFailureResult ==
  [][(call # NoCall /\ call' = NoCall) =>
       /\ tools' = tools
       /\ reg'.last.call = "execute"
       /\ reg'.last.outcome.kind = "throw" =>
            /\ reg'.last.value.success = FALSE
            /\ reg'.last.value.error.t = "string"
            /\ reg'.last.outcome.thrown.isError =>
                 reg'.last.value.error.v = reg'.last.outcome.thrown.message]_vars

C18_Witness ==
  /\ Executed
  /\ reg.last.invoked = 1
  /\ reg.last.outcome.kind = "throw"
  /\ reg.last.outcome.thrown.isError
  /\ reg.last.value.success = FALSE
  /\ reg.last.value.error = Str(<<"boom">>)
  /\ Len(tools) > 0

\* C19: after any sequence of register, registerMany and unregister calls,
\* get(name) is the definition of the latest register of the name that no
\* unregister followed, undefined otherwise; getNames never holds a name
\* twice; unregister returns true exactly when the name was registered.
C19_LastRegistrationWins ==
  /\ \A n \in ToolNames : get(tools, n) = reg.latest[n]
  /\ \A i, j \in 1..Len(tools) : getNames(tools)[i] = getNames(tools)[j] => i = j
  /\ reg.last.call = "unregister" => reg.last.value = Bool(reg.last.registered)

C19_Witness ==
  /\ reg.last.call = "register"
  /\ reg.last.warned
  /\ get(tools, myCustomTool.name) = myCustomToolAgain
  /\ Len(tools) = 2

\* ------------------------------------------------------------------------
\* Properties of withRetry
\* ------------------------------------------------------------------------

\* the i-th attempt failed with an error isRetryableError accepts
FailedTransiently(i) ==
  /\ retrying.outcomes[i].kind = "throw"
  /\ isRetryableError(retrying.outcomes[i].thrown)

\* C20: when the operation fails its first k-1 attempts with a retryable
\* error and succeeds on attempt k, withRetry returns the value of attempt k
\* and the operation was invoked exactly k times; as long as no more than
\* `retries` attempts have failed that way, withRetry goes on to the next.
C20_SucceedsOnAttemptK ==
  LET k == Len(retrying.outcomes)
  IN  (k >= 1 /\ \A i \in 1..(k - 1) : FailedTransiently(i)) =>
        /\ retrying.outcomes[k].kind = "return" =>
             /\ retrying.phase = "returned"
             /\ retrying.invoked = k
             /\ retrying.value = retrying.outcomes[k].value
        /\ (FailedTransiently(k) /\ k <= retrying.options.retries) =>
             \/ retrying.phase = "waiting" /\ retrying.invoked = k
             \/ retrying.phase = "calling" /\ retrying.invoked = k + 1

C20_Witness ==
  /\ retrying.phase = "returned"
  /\ retrying.options.retries = 2
  /\ retrying.invoked = 3
  /\ retrying.onRetry = 2
  /\ retrying.value = Str(<<"ok">>)

C22_NonRetryableStopsAtOnce ==
  \A k \in 1..Len(retrying.outcomes) :
    (/\ retrying.outcomes[k].kind = "throw"
     /\ ~isRetryableError(retrying.outcomes[k].thrown)) =>
       /\ k = Len(retrying.outcomes)
       /\ retrying.invoked = k
       /\ retrying.phase = "rejected"
       /\ retrying.error.isError /\ ~retrying.error.isAbort
       /\ retrying.outcomes[k].thrown.isError =>
             retrying.error.message = retrying.outcomes[k].thrown.message

\* the first attempt fails for good with two retries left
C22_Witness ==
  /\ retrying.phase = "rejected"
  /\ retrying.options.retries = 2
  /\ retrying.invoked = 1
  /\ retrying.onRetry = 0
  /\ retrying.outcomes[1].thrown = OperationError(TRUE, FALSE, <<"Invalid API key">>)

\* ------------------------------------------------------------------------
\* Properties of one execute call: events, timestamps, statuses, context
\* ------------------------------------------------------------------------

\* C25: the handlers of an event are called one after another in the order
\* of eventHandlers, each event reaches the last handler before the next
\* event is emitted and before execute returns, and a handler that returns
\* and a handler that throws leave the same state behind: the next handler
\* is due, and the task, its steps, the context and the position of execute
\* are untouched.
C25_HandlersRunInOrderAndAreContained ==
  [][/\ dispatch' # dispatch =>
          \/ events' # events /\ dispatch' = 1
          \/ /\ dispatch \in 1..Len(eventHandlers)
             /\ dispatch' = dispatch + 1
             /\ UNCHANGED <<task, context, pc, cur, outcome, events, eventHandlers,
                            tools, call, ids, input, agent>>
     /\ history'.handlerThrew # history.handlerThrew => dispatch' = dispatch + 1
     /\ (events' # events /\ events # <<>>) => Delivered
     /\ outcome' = "returned" => dispatch' > Len(eventHandlers')]_vars

\* both handlers were called for the first event and one of them threw
C25_Witness ==
  /\ Len(eventHandlers) = 2
  /\ Len(events) = 1
  /\ history.handlerThrew
  /\ dispatch = 3

\* startedAt and completedAt of a step are set and in order, inside [from, to]
StepInterval(s, from, to) ==
  /\ s.startedAt.t = "number" /\ s.completedAt.t = "number"
  /\ from <= s.startedAt.v
  /\ s.startedAt.v <= s.completedAt.v
  /\ s.completedAt.v <= to

\* C26: with a clock that never goes backwards, the Task execute returns has
\* createdAt, startedAt and completedAt set, createdAt <= startedAt <=
\* completedAt, whether it completed, failed at a step or failed in the catch
\* clause; every step that was started (its status is no longer pending)
\* has startedAt <= completedAt, both between the task's startedAt and
\* completedAt, and a step that was not started has neither.
C26_TimestampsAreOrdered ==
  Returned =>
    /\ task.createdAt.t = "number"
    /\ task.startedAt.t = "number"
    /\ task.completedAt.t = "number"
    /\ task.createdAt.v <= task.startedAt.v
    /\ task.startedAt.v <= task.completedAt.v
    /\ \A i \in Steps :
         IF task.steps[i].status = "pending"
           THEN /\ task.steps[i].startedAt = Undefined
                /\ task.steps[i].completedAt = Undefined
           ELSE StepInterval(task.steps[i], task.startedAt.v, task.completedAt.v)

\* a completed task whose step took time, started after the task was created
C26_Witness ==
  /\ Returned
  /\ task.status = "completed"
  /\ Len(task.steps) >= 1
  /\ task.createdAt.v < task.startedAt.v
  /\ task.steps[1].startedAt.v < task.steps[1].completedAt.v

\* where an event type stands in the life of a task
rank(type) ==
  CASE type = "task:created" -> 1
    [] type = "task:started" -> 2
    [] type = "task:planning" -> 3
    [] type = "task:planned" -> 4
    [] type \in {"step:started", "step:completed", "step:failed"} -> 5
    [] type \in {"task:completed", "task:failed"} -> 6

\* the positions in events of the step:started events, in order
StartedAt == SelectSeq([i \in 1..Len(events) |-> i],
                       LAMBDA i : events[i].type = "step:started")

\* C27: the events of a call are those of its task and come in the order
\* task:created, task:started, task:planning, task:planned, the step events,
\* then task:completed or task:failed: the first three open the sequence, no
\* task event occurs twice, nothing follows task:completed or task:failed,
\* and the returned call has emitted one of the two (task:planned is left
\* out only when plan rejected, and task:failed then follows task:planning).
\* The k-th step:started is that of the k-th step of the plan and the event
\* after it is the step:completed or step:failed of the same step; every
\* step:completed and step:failed follows its step:started.  task:completed
\* never comes after a step:failed.
C27_EventsFollowTheLifecycle ==
  LET n == Len(events)
      type(i) == events[i].type
  IN  /\ \A i \in 1..n : events[i].taskId = task.id
      /\ \A i \in 1..n : i <= 3 => rank(type(i)) = i
      /\ \A i, j \in 1..n :
           i < j => /\ rank(type(i)) <= rank(type(j))
                    /\ rank(type(i)) = rank(type(j)) => rank(type(i)) = 5
      /\ \A i \in 1..n : rank(type(i)) = 5 => type(4) = "task:planned"
      /\ \A i \in 1..n :
           /\ (type(i) = "step:started" /\ i < n) =>
                /\ type(i + 1) \in {"step:completed", "step:failed"}
                /\ events[i + 1].stepId = events[i].stepId
           /\ type(i) \in {"step:completed", "step:failed"} =>
                /\ type(i - 1) = "step:started"
                /\ events[i - 1].stepId = events[i].stepId
      /\ Len(StartedAt) <= Len(task.steps)
      /\ \A k \in 1..Len(StartedAt) : events[StartedAt[k]].stepId = task.steps[k].id
      /\ \A k \in Steps : task.steps[k].status # "pending" <=> k <= Len(StartedAt)
      /\ Returned =>
           /\ n >= 4 /\ rank(type(n)) = 6
           /\ type(4) # "task:planned" => n = 4 /\ history.planThrew
      /\ (n >= 1 /\ type(n) = "task:completed") =>
           \A i \in 1..n : type(i) # "step:failed"

\* a step completes, the next one fails, the task fails
C27_Witness ==
  /\ Returned
  /\ [i \in 1..Len(events) |-> events[i].type] =
       <<"task:created", "task:started", "task:planning", "task:planned",
         "step:started", "step:completed", "step:started", "step:failed",
         "task:failed">>

\* C28: whenever a step has status executing it is the only one, every step
\* before it in the plan is completed and every step after it is pending;
\* so no step is executing before the one before it has completed.
C28_OneStepAtATime ==
  \A i \in Steps :
    task.steps[i].status = "executing" =>
      /\ \A j \in Steps : j < i => task.steps[j].status = "completed"
      /\ \A j \in Steps : j > i => task.steps[j].status = "pending"

\* the second of three steps is executing
C28_Witness ==
  /\ Len(task.steps) = 3
  /\ task.steps[1].status = "completed"
  /\ task.steps[2].status = "executing"
  /\ task.steps[3].status = "pending"
  /\ call # NoCall

\* the moves of a status along pending -> planning -> executing ->
\* completed or failed, a failure being possible from planning on
Advances(from, to) ==
  \/ from = "pending" /\ to = "planning"
  \/ from = "planning" /\ to \in {"executing", "failed"}
  \/ from = "executing" /\ to \in {"completed", "failed"}

\* C29: a Task is created pending and its status changes only forward along
\* pending -> planning -> executing -> completed or failed, under execute
\* and under updateTaskStatus: it never goes back, never reaches completed
\* from pending or planning, never leaves completed or failed, and is never
\* cancelled.
C29_StatusOnlyAdvances ==
  [][/\ (task = NoTask /\ task' # NoTask) => task'.status = "pending"
     /\ (task # NoTask /\ task'.status # task.status) =>
          Advances(task.status, task'.status)]_vars

\* a Map only grows: every key it had is still there with the same value
Grows(before, after) ==
  \A k \in DOMAIN before : k \in DOMAIN after /\ after[k] = before[k]

\* the Maps of the context of the call only grow
ContextGrows ==
  /\ Grows(context.variables, context'.variables)
  /\ Grows(context.stepResults, context'.stepResults)

\* C30 as stated: the variables and the step results only grow, no key is
\* overwritten or removed, and after the execution the keys of the
\* variables and of stepResults are those of the completed steps.
C30_KeysAreCompletedSteps ==
  [][/\ ContextGrows
     /\ Returned' =>
          /\ DOMAIN context'.stepResults = CompletedIds'
          /\ DOMAIN context'.variables = {resultKey(id) : id \in CompletedIds'}]_vars

\* C30 amended: the variables and the step results only grow, no key is
\* overwritten or removed; after the execution the keys of stepResults are
\* the ids of the completed steps, and the keys of the variables are the
\* `step.<id>.result` of the completed steps whose tool returned data that
\* is not undefined, each holding that data.
C30_KeysAreStepsWithData ==
  [][/\ ContextGrows
     /\ Returned' =>
          /\ DOMAIN context'.stepResults = CompletedIds'
          /\ DOMAIN context'.variables = {resultKey(id) : id \in DefinedIds'}
          /\ \A i \in 1..Len(task'.steps) :
               task'.steps[i].id \in DefinedIds' =>
                 context'.variables[resultKey(task'.steps[i].id)] =
                   task'.steps[i].result]_vars

\* two completed steps, one with data and one without: one variable
C30_Witness ==
  /\ Returned
  /\ task.status = "completed"
  /\ Len(task.steps) = 2
  /\ task.steps[1].result = Undefined
  /\ task.steps[2].result.t = "object"
  /\ DOMAIN context.variables = {resultKey(task.steps[2].id)}
  /\ DOMAIN context.stepResults = {task.steps[1].id, task.steps[2].id}

\* ------------------------------------------------------------------------
\* Properties of the circuit breaker
\* ------------------------------------------------------------------------

\* the failures of the wrapped operation since its last success
RECURSIVE streak(_)
streak(log) ==
  IF log = <<>> THEN 0
  ELSE LET rest == SubSeq(log, 1, Len(log) - 1)
       IN  CASE log[Len(log)] = "success" -> 0
             [] log[Len(log)] = "failure" -> 1 + streak(rest)
             [] OTHER -> streak(rest)

\* a call of execute is made in this step
CallMade == breaker'.calls = breaker.calls + 1

\* the calls so far were made one at a time and none is in flight
OneAtATime(b) == ~b.overlapped /\ InFlight(b) = 0

\* C23: with calls made one at a time, the failure count is the number of
\* failures since the last success, and the breaker is open exactly when
\* that number has reached failureThreshold, closed otherwise; a call made
\* while it is open and before resetTimeoutMs has passed since the last
\* failure is rejected and does not invoke the operation.
C23_OpensAtThresholdAndRejects ==
  [][/\ OneAtATime(breaker') =>
          /\ breaker'.failures = streak(breaker'.log)
          /\ breaker'.state =
               IF streak(breaker'.log) >= breaker'.options.failureThreshold
                 THEN "open" ELSE "closed"
     /\ (/\ OneAtATime(breaker)
         /\ CallMade
         /\ breaker.state = "open"
         /\ breaker.now - breaker.lastFailureTime.v < breaker.options.resetTimeoutMs) =>
          /\ breaker'.log = Append(breaker.log, "rejected")
          /\ breaker'.invoked = breaker.invoked
          /\ breaker'.state = "open"]_vars

\* a failure, a success, two failures in a row: open at the second of them
C23_Witness ==
  /\ breaker.options.failureThreshold = 2
  /\ breaker.log = <<"failure", "success", "failure", "failure">>
  /\ breaker.state = "open"
  /\ breaker.failures = 2
  /\ ~breaker.overlapped

\* C24: a call made while the breaker is open and resetTimeoutMs or more
\* after the last failure invokes the operation with the breaker half-open;
\* when that operation succeeds the breaker is closed with failure count 0,
\* when it fails the breaker is open with the failure time set to now, so
\* that it is too early to try again.
C24_ProbeClosesOrReopens ==
  [][/\ (CallMade /\ breaker.state = "open" /\ shouldAttemptReset(breaker)) =>
          /\ breaker'.state = "half-open"
          /\ breaker'.invoked = breaker.invoked + 1
     /\ breaker'.inflight.probe < breaker.inflight.probe =>
          IF breaker'.log[Len(breaker'.log)] = "success"
            THEN breaker'.state = "closed" /\ breaker'.failures = 0
            ELSE /\ breaker'.state = "open"
                 /\ breaker'.lastFailureTime = Num(breaker.now)
                 /\ ~shouldAttemptReset(breaker')]_vars

\* ------------------------------------------------------------------------
\* Properties of withRetry and isRetryableError, continued
\* ------------------------------------------------------------------------

\* min(maxDelay, minDelay * factor^(k-1)) for the options of the call, with
\* factor 2 and maxDelay 10 * minDelay where the caller gave none
Delay(k) ==
  LET o == retrying.options
      f == IF o.factor = Undefined THEN 2 ELSE o.factor.v
      cap == IF o.maxTimeout = Undefined THEN 10 * o.minTimeout ELSE o.maxTimeout.v
      grown == o.minTimeout * power(f, k - 1)
  IN  IF cap < grown THEN cap ELSE grown

Transient(error) ==
  /\ error.isError
  /\ \E sign \in {"ECONNRESET", "ETIMEDOUT", "429", "rate limit", "overloaded",
                   "capacity", "500", "501", "502", "503", "504"} :
       includes(error.message, <<sign>>)

\* C32: isRetryableError accepts every transient failure that is not marked
\* non-retryable, every 5xx status among them, and refuses every other
\* failure and every failure marked non-retryable.
C32_TransientSetIsRetryable ==
  \A k \in 1..Len(retrying.outcomes) :
    retrying.outcomes[k].kind = "throw" =>
      LET error == retrying.outcomes[k].thrown
      IN  isRetryableError(error) <=> (Transient(error) /\ ~error.isAbort)

\* ------------------------------------------------------------------------
\* Properties of the circuit breaker under concurrent calls
\* ------------------------------------------------------------------------

\* C33: under every interleaving of calls the state of the breaker changes
\* only from closed to open, from open to half-open, from half-open to
\* closed or to open -- never from open to closed -- and no call invokes the
\* operation while the breaker is open and its last failure is less than
\* resetTimeoutMs old.
C33_StateFollowsTheCycle ==
  [][/\ breaker'.state # breaker.state =>
          <<breaker.state, breaker'.state>> \in
            {<<"closed", "open">>, <<"open", "half-open">>,
             <<"half-open", "closed">>, <<"half-open", "open">>}
     /\ (breaker.state = "open" /\ ~shouldAttemptReset(breaker)) =>
          breaker'.invoked = breaker.invoked]_vars

\* C36: in every state, under every interleaving of calls, a closed breaker
\* has counted fewer failures than failureThreshold, and an open or
\* half-open one has counted failureThreshold or more and has a last
\* failure time.
C36_StateMatchesFailureCount ==
  IF breaker.state = "closed"
    THEN breaker.failures < breaker.options.failureThreshold
    ELSE /\ breaker.state \in {"open", "half-open"}
         /\ breaker.failures >= breaker.options.failureThreshold
         /\ breaker.lastFailureTime.t = "number"

\* calls overlapped: half-open with a probe and an older call in flight
C36_Witness ==
  /\ breaker.overlapped
  /\ breaker.state = "half-open"
  /\ breaker.inflight.probe = 1 /\ breaker.inflight.plain = 1
  /\ breaker.failures = 2

\* C37: while the breaker is half-open at most one operation is in flight,
\* and a call made while it is half-open and the probe has not finished is
\* rejected without invoking the operation.
C37_SingleProbe ==
  [][/\ breaker'.state = "half-open" => InFlight(breaker') <= 1
     /\ (CallMade /\ breaker.state = "half-open" /\ breaker.inflight.probe >= 1) =>
          /\ breaker'.invoked = breaker.invoked
          /\ breaker'.log = Append(breaker.log, "rejected")]_vars

\* ------------------------------------------------------------------------
\* Properties of execute: bounds and termination
\* ------------------------------------------------------------------------

\* C38: a task has at most input.maxSteps steps, and execute invokes at most
\* that many tools for it, whatever plan the planner returns.
C38_PlanWithinMaxSteps ==
  task # NoTask =>
    /\ Len(task.steps) <= task.input.maxSteps.v
    /\ Len(history.invocations) <= task.input.maxSteps.v

\* no step is given to the registry twice, no tool is invoked twice for a step
NeverRetried ==
  /\ \A i, j \in 1..Len(history.registryCalls) :
       i # j => history.registryCalls[i] # history.registryCalls[j]
  /\ \A i, j \in 1..Len(history.invocations) :
       i # j => history.invocations[i] # history.invocations[j]
  /\ Len(history.invocations) <= Len(history.registryCalls)
  /\ Len(history.registryCalls) <= Len(task.steps)

\* C40: when the planner, every tool and every handler settle, execute
\* returns its Task for every valid input; it gives each step to the
\* registry at most once, so it invokes at most as many tools as the plan
\* has steps.
C40_ExecuteReturns ==
  /\ []NeverRetried
  /\ <>(Returned \/ ~validInput(input))

\* a returned task of three steps, each of which invoked its tool
C40_Witness ==
  /\ Returned
  /\ Len(task.steps) = 3
  /\ history.invocations = <<1, 2, 3>>

\* ------------------------------------------------------------------------
\* Properties of onEvent and emitEvent with handlers that come and go
\* ------------------------------------------------------------------------

\* the onEvent calls whose entry is in the array
Registered(b) == {b.eventHandlers[i].by : i \in 1..Len(b.eventHandlers)}

\* how often the entry of the r-th onEvent call was called with event e
Receptions(b, r, e) ==
  Cardinality({i \in 1..Len(b.received) : b.received[i] = <<r, e>>})

\* C34: when emitEvent has returned, every handler that was registered when
\* the event was emitted, whose deregistration function was not called and
\* whose entry is still in the array, was called with the event exactly
\* once -- also when another handler deregistered itself or registered a
\* handler during the dispatch.
C34_RegisteredHandlersReceiveOnce ==
  (bus # NotCalled /\ bus.emitted > 0 /\ ~bus.dispatching) =>
    \A r \in bus.atEmit :
      (r \in Registered(bus) /\ r \notin Range(bus.removals)) =>
        Receptions(bus, r, bus.emitted) = 1

\* C39: a call of the function the r-th onEvent call returned takes no
\* entry out of the array but the entry of that call, a second call of it
\* changes nothing, and once it was called the entry of that call is not
\* in the array, so no event emitted later reaches the handler through it.
C39_DeregistrationIsOwnAndIdempotent ==
  [][(bus # NotCalled /\ Len(bus'.removals) = Len(bus.removals) + 1) =>
       LET r == bus'.removals[Len(bus'.removals)]
       IN  /\ Registered(bus) \ Registered(bus') \subseteq {r}
           /\ r \in Range(bus.removals) => bus'.eventHandlers = bus.eventHandlers
           /\ r \notin Registered(bus')]_vars

\* ------------------------------------------------------------------------
\* Properties of two concurrent execute calls
\* ------------------------------------------------------------------------

\* the ids of the steps of a call's task
StepIds(c) == {c.task.steps[i].id : i \in 1..Len(c.task.steps)}

\* the steps of a call's task that completed
Done(c) == {i \in 1..Len(c.task.steps) : c.task.steps[i].status = "completed"}

\* the context, the step results, the variables and the events of a call
\* are those of its own task
Own(c) ==
  /\ c.context # NoContext => (c.task # NoTask /\ c.context.taskId = c.task.id)
  /\ DOMAIN c.context.stepResults \subseteq StepIds(c)
  /\ \A i \in 1..Len(c.task.steps) :
       LET s == c.task.steps[i]
       IN  /\ s.id \in DOMAIN c.context.stepResults =>
                /\ s.status = "completed"
                /\ c.context.stepResults[s.id].data = s.result
           /\ resultKey(s.id) \in DOMAIN c.context.variables =>
                c.context.variables[resultKey(s.id)] = s.result
  /\ DOMAIN c.context.variables \subseteq {resultKey(id) : id \in StepIds(c)}
  /\ \A k \in 1..Len(c.events) :
       /\ c.events[k].taskId = c.task.id
       /\ c.events[k].stepId # Undefined => c.events[k].stepId \in StepIds(c)

\* the task a call returned is the one the call yields when it runs alone:
\* settled, completed exactly when its plan returned and every step
\* completed, halted at its first failed step, with the result aggregated
\* from its own steps and every completed step in its own context
AsAlone(c) ==
  /\ c.task.status \in {"completed", "failed"}
  /\ c.task.status = "completed" <=>
       (c.history.planReturned /\ Done(c) = 1..Len(c.task.steps))
  /\ \A i \in 1..Len(c.task.steps) :
       c.task.steps[i].status = "failed" =>
         \A j \in (i + 1)..Len(c.task.steps) : c.task.steps[j].status = "pending"
  /\ \A i \in 1..Len(c.task.steps) :
       c.task.steps[i].status \in {"completed", "failed", "pending"}
  /\ c.task.status = "completed" => c.task.result = aggregateResults(c.task.steps)
  /\ DOMAIN c.context.stepResults = {c.task.steps[i].id : i \in Done(c)}

\* C35: with two execute calls of one agent interleaved at every await,
\* each call keeps to its own task -- its context, step results, variables
\* and events carry its own task's and steps' ids, and the two tasks share
\* no id -- and each returned Task is the one the call yields alone.
C35_ConcurrentCallsAreIsolated ==
  other # NotCalled =>
    /\ Own(Running)
    /\ Own(other)
    /\ (task # NoTask /\ other.task # NoTask) =>
         /\ task.id # other.task.id
         /\ StepIds(Running) \cap StepIds(other) = {}
    /\ Returned => AsAlone(Running)
    /\ other.outcome = "returned" => AsAlone(other)

\* a call returned its completed task, its step's data in its variables,
\* while the other call had stored the data of its own step and not yet
\* returned
C35_Witness ==
  /\ other # NotCalled
  /\ Returned
  /\ task.status = "completed"
  /\ DOMAIN context.variables # {}
  /\ other.outcome = "none"
  /\ other.pc = "stepDone"
  /\ DOMAIN other.context.variables # {}

====
